---- MODULE Spec2Model ----
(***************************************************************************)
(* Model of the join-optimising data provider (OptimizedDataProvider,      *)
(* OptimizedEntityDataProvider, FilterToKnexBridge) and of the insert      *)
(* trigger fallback (SafeKnexDataProvider).                                *)
(*                                                                         *)
(* Strings that the code builds, splits and compares (aliases, column      *)
(* aliases, relation paths) are sequences of tokens: a token is a word     *)
(* without '_' or the separator "_" itself, so that join('_'), split('_'), *)
(* startsWith and includes('__') are computed as the code computes them.   *)
(***************************************************************************)
EXTENDS Integers, Sequences, FiniteSets, TLC

VARIABLES
  cfg,     \* how the entities are declared
  meta,    \* the entity descriptors (EntityMetadata) built from it
  db,      \* the stored rows of the tables
  req,     \* the request being served: operation, filter, include
  pc,      \* where find / count stands
  defs,    \* per virtual field, the sqlExpression installed on its options
  plan,    \* validJoins, JOIN clauses and selectColumns built so far
  where,   \* the translated WHERE conditions
  rows,    \* the flat rows returned by the join statement
  result,  \* what the invocation returned or threw
  trace,   \* what the invocation went through
  seen,    \* what the caller keeps of its latest find
  promise,        \* the sqlExpression of the field returns a Promise
  sqlExpression,  \* the function installed on the options of the field
  inv             \* the invocations in flight on the entity

findVars ==
  <<cfg, meta, db, req, pc, defs, plan, where, rows, result, trace, seen>>
concVars == <<promise, sqlExpression, inv>>
vars == <<findVars, concVars>>

-----------------------------------------------------------------------------
(* Strings as token sequences *)

U == "_"
K(w) == <<w>>
Null == "null"
NoKey == <<>>
NoEntity == "none"

RECURSIVE JoinU(_)
\* parts.join('_')
JoinU(parts) ==
  IF Len(parts) = 0 THEN <<>>
  ELSE IF Len(parts) = 1 THEN parts[1]
  ELSE parts[1] \o <<U>> \o JoinU(Tail(parts))

RECURSIVE SplitFrom(_, _, _)
SplitFrom(s, i, cur) ==
  IF i > Len(s) THEN <<cur>>
  ELSE IF s[i] = U THEN <<cur>> \o SplitFrom(s, i + 1, <<>>)
  ELSE SplitFrom(s, i + 1, Append(cur, s[i]))

\* s.split('_')
SplitU(s) == SplitFrom(s, 1, <<>>)

\* s.startsWith(p)
StartsWith(s, p) == Len(p) <= Len(s) /\ SubSeq(s, 1, Len(p)) = p

\* s.includes('_')
IncludesU(s) == \E i \in 1..Len(s) : s[i] = U

\* s.includes('__')
IncludesUU(s) == \E i \in 1..(Len(s) - 1) : s[i] = U /\ s[i + 1] = U

\* s.substring(n)
Substring(s, n) == SubSeq(s, n + 1, Len(s))

\* The value of an expression, bound once: One(S) is the element of the
\* singleton S
One(S) == CHOOSE x \in S : TRUE

\* the id values of stored rows, in ascending order
Ids == <<"1", "2", "3", "4">>

\* the least element of a non-empty set of indices
Min(S) == CHOOSE x \in S : \A y \in S : x <= y

-----------------------------------------------------------------------------
(* Metadata view: entities, fields, relations *)

\* options.include of a relation: undefined, or a list of items; an item is
\* a field key or { field, as }
NoInclude == [has |-> FALSE, items |-> <<>>]
Include(items) == [has |-> TRUE, items |-> items]
Item(k) == [field |-> k, as |-> NoKey]

\* the sqlExpression of a field that declares none or declares a token
NoSql == [k |-> "none"]

\* A field descriptor.  expr: the reference token of the sqlExpression
\* ('@JOIN:' path, a sequence of keys; <<>>: no token).  sql: a
\* sqlExpression written by hand, in parsed form (NoSql: none).  auto: the
\* relation key and the field key of a serverExpression of the form
\* entity.relation?.field (<<>>: no such source text).  rel: the target
\* entity of fieldRelationInfo (NoEntity: not a relation).  untargeted: the
\* field has a fieldRelationInfo whose toRepo has no metadata.  converter:
\* the valueConverter of the field ("none": values are stored as they are).
PlainField(k, dbn) ==
  [key |-> k, dbName |-> dbn, expr |-> <<>>, server |-> FALSE,
   rel |-> NoEntity, infoFk |-> NoKey, optFk |-> NoKey,
   include |-> NoInclude, isArray |-> FALSE, sql |-> NoSql, auto |-> <<>>,
   untargeted |-> FALSE, converter |-> "none"]

\* a field of a typed value: a Date, stored in its serialized form
DateField(k, dbn) == [PlainField(k, dbn) EXCEPT !.converter = "date"]

RelationField(k, target, infoFk, optFk, inc) ==
  [PlainField(k, NoKey) EXCEPT !.server = TRUE, !.rel = target,
     !.infoFk = infoFk, !.optFk = optFk, !.include = inc]

\* a relation field whose target entity cannot be determined
UntargetedRelationField(k) ==
  [PlainField(k, NoKey) EXCEPT !.server = TRUE, !.untargeted = TRUE]

\* (relationField as any)[fieldRelationInfo] is set
HasRelationInfo(f) == f.rel # NoEntity \/ f.untargeted

VirtualField(k, path) == [PlainField(k, NoKey) EXCEPT !.expr = path]

\* sqlExpression: a text that is no token
HandWrittenField(k, sql) == [PlainField(k, NoKey) EXCEPT !.sql = sql]

\* serverExpression: (entity) => entity.relationKey?.targetFieldKey
ServerComputedField(k, relationKey, targetFieldKey) ==
  [PlainField(k, NoKey) EXCEPT !.server = TRUE,
     !.auto = <<relationKey, targetFieldKey>>]

\* fieldOptions.sqlExpression is set
HasSqlExpression(f) == f.expr # <<>> \/ f.sql # NoSql

\* The key of the foreign key field of relation 'a', by declaration style
FkKey(style) ==
  IF style = "convention" THEN <<"a", "Id">> ELSE <<"a", "Ref">>

FkKeyOfA == FkKey(cfg.fkStyle)

RFields(c) ==
  <<PlainField(K("id"), NoKey),
    PlainField(FkKey(c.fkStyle), K("AID")),
    RelationField(K("a"), "A",
       IF c.fkStyle = "info" THEN FkKey(c.fkStyle) ELSE NoKey,
       IF c.fkStyle = "option" THEN FkKey(c.fkStyle) ELSE NoKey,
       c.aInclude),
    VirtualField(K("aName"), <<K("a"), K("name")>>)>>
  \o (IF c.multiHop
      THEN <<VirtualField(K("bName"), <<K("a"), K("b"), K("name")>>)>>
      ELSE <<>>)

AFields ==
  <<PlainField(K("id"), NoKey),
    PlainField(K("name"), K("NAME")),
    PlainField(<<"b", "Id">>, K("BID")),
    RelationField(K("b"), "B", NoKey, <<"b", "Id">>, NoInclude)>>

BFields ==
  <<PlainField(K("id"), NoKey),
    PlainField(K("name"), K("NAME"))>>

\* EntityMetadata: idKey is idMetadata.fields[0].key (NoKey: none declared)
EntityNames == {"R", "A", "B"}

MetadataOf(c) ==
  [e \in EntityNames \cup {NoEntity} |->
     CASE e = "R" -> [key |-> "R", fields |-> RFields(c), idKey |-> K("id"),
                      nameKey |-> NoKey]
       [] e = "A" -> [key |-> "A", fields |-> AFields,
                      idKey |-> IF c.aHasId THEN K("id") ELSE NoKey,
                      nameKey |-> IF c.aNameKey THEN K("name") ELSE NoKey]
       [] e = "B" -> [key |-> "B", fields |-> BFields, idKey |-> K("id"),
                      nameKey |-> IF c.bNameKey THEN K("name") ELSE NoKey]
       [] OTHER -> [key |-> NoEntity, fields |-> <<>>, idKey |-> NoKey,
                    nameKey |-> NoKey]]

\* the descriptor of entity e; of no entity: one without fields
Entity(e) == meta[e]

NoField == PlainField(NoKey, NoKey)

\* entity.fields.toArray().find(f => f.key === key)
FieldByKey(e, key) ==
  One({IF I = {} THEN NoField ELSE Entity(e).fields[Min(I)] :
         I \in {{i \in 1..Len(Entity(e).fields) :
                   Entity(e).fields[i].key = key}}})

\* fields.find(f => f.key === name || (f.options.dbName || f.key) === name)
getFieldDbName(f) == IF f.dbName # NoKey THEN f.dbName ELSE f.key

FieldByKeyOrDbName(e, name) ==
  One({IF I = {} THEN NoField ELSE Entity(e).fields[Min(I)] :
         I \in {{i \in 1..Len(Entity(e).fields) :
                   \/ Entity(e).fields[i].key = name
                   \/ getFieldDbName(Entity(e).fields[i]) = name}}})

\* `${relationKey}Id`
ConventionFk(relationKey) == relationKey \o <<"Id">>

getRelationDetails(e, relationKey) ==
  One({One({[relationField |-> relationField,
             relationInfo |-> relationField.rel,
             relatedEntity |-> relationField.rel,
             fkField |->
               IF fkFromInfo # NoField THEN fkFromInfo
               ELSE IF fkFieldByOption # NoField THEN fkFieldByOption
               ELSE fkFieldByConvention] :
              fkFromInfo \in
                {IF relationField.infoFk # NoKey
                 THEN FieldByKey(e, relationField.infoFk) ELSE NoField},
              fkFieldByOption \in
                {IF relationField.optFk # NoKey
                 THEN FieldByKey(e, relationField.optFk) ELSE NoField},
              fkFieldByConvention \in
                {FieldByKey(e, ConventionFk(relationKey))}}) :
         relationField \in {FieldByKey(e, relationKey)}})


-----------------------------------------------------------------------------
(* Join Planner: which relations to join *)

NoRelation ==
  [fieldKey |-> NoKey, relatedEntity |-> NoEntity, fkField |-> NoField,
   optField |-> NoKey, include |-> NoInclude, isArray |-> FALSE,
   nested |-> <<>>]

\* The relation record pushed for a relation field (relationInfo is the
\* field's options, relatedEntityMetadata the target of fieldRelationInfo)
RelationOf(field, fkField) ==
  [fieldKey |-> field.key, relatedEntity |-> field.rel, fkField |-> fkField,
   optField |-> field.optFk, include |-> field.include,
   isArray |-> field.isArray, nested |-> <<>>]

\* detectNestedPathsInSqlExpressions: the relation paths of the tokens with
\* more than two segments, each path once, in field order
RelationPathOf(field) == SubSeq(field.expr, 1, Len(field.expr) - 1)

RECURSIVE NestedPathsFrom(_, _)
NestedPathsFrom(fs, i) ==
  IF i > Len(fs) THEN <<>>
  ELSE (IF Len(fs[i].expr) > 2
             /\ \A j \in 1..(i - 1) :
                  ~(Len(fs[j].expr) > 2
                      /\ RelationPathOf(fs[j]) = RelationPathOf(fs[i]))
        THEN <<RelationPathOf(fs[i])>> ELSE <<>>)
         \o NestedPathsFrom(fs, i + 1)

detectNestedPathsInSqlExpressions(e) ==
  NestedPathsFrom(Entity(e).fields, 1)

\* addNestedRelationsToJoin: walks the path from currentEntity, creating the
\* missing relation at each level; a level that cannot be created aborts
\* the walk and keeps what was pushed before it
RECURSIVE addNestedRelationsToJoin(_, _, _)
addNestedRelationsToJoin(path, currentEntity, currentRelations) ==
  One({LET relationKey == path[1]
           fkField ==
             IF details.fkField # NoField THEN details.fkField
             ELSE byConvention
           creatable ==
             relationField # NoField /\ fkField # NoField
               /\ HasRelationInfo(relationField)
           existing == {i \in 1..Len(rels) : rels[i].fieldKey = relationKey}
           withNew ==
             IF existing = {} /\ creatable
             THEN Append(rels, RelationOf(relationField, fkField)) ELSE rels
           at == IF existing # {} THEN Min(existing) ELSE Len(rels) + 1
       IN IF existing = {} /\ ~creatable THEN rels
          ELSE IF Len(path) = 1 THEN withNew
          ELSE One({[i \in 1..Len(withNew) |->
                       IF i = at THEN [withNew[i] EXCEPT !.nested = deeper]
                       ELSE withNew[i]] :
                    deeper \in {addNestedRelationsToJoin(Tail(path),
                                  withNew[at].relatedEntity,
                                  withNew[at].nested)}}) :
         rels \in {currentRelations},
         relationField \in {FieldByKey(currentEntity, path[1])},
         details \in {getRelationDetails(currentEntity, path[1])},
         byConvention \in
           {FieldByKey(currentEntity, ConventionFk(path[1]))}})

\* addNestedRelationsToJoin raises a TypeError: the walk went down a
\* relation without relatedEntityMetadata and the next level, not pushed
\* before, reads currentEntity.fields
RECURSIVE addNestedRelationsToJoinThrows(_, _, _)
addNestedRelationsToJoinThrows(path, currentEntity, currentRelations) ==
  One({LET existing ==
             {i \in 1..Len(currentRelations) :
                currentRelations[i].fieldKey = path[1]}
           found == {i \in 1..Len(rels) : rels[i].fieldKey = path[1]}
       IN IF existing = {} /\ currentEntity = NoEntity THEN TRUE
          ELSE IF found = {} \/ Len(path) = 1 THEN FALSE
          ELSE addNestedRelationsToJoinThrows(Tail(path),
                 rels[Min(found)].relatedEntity, rels[Min(found)].nested) :
         rels \in {IF currentEntity = NoEntity THEN currentRelations
                    ELSE addNestedRelationsToJoin(<<path[1]>>, currentEntity,
                                                  currentRelations)}})

RECURSIVE AddNestedPaths(_, _, _)
AddNestedPaths(e, paths, rels) ==
  IF Len(paths) = 0 THEN rels
  ELSE One({AddNestedPaths(e, Tail(paths), next) :
              next \in {addNestedRelationsToJoin(paths[1], e, rels)}})

\* the loop over the nested paths raises an error at one of them
RECURSIVE NestedPathsThrow(_, _, _)
NestedPathsThrow(e, paths, rels) ==
  IF Len(paths) = 0 THEN FALSE
  ELSE \/ addNestedRelationsToJoinThrows(paths[1], e, rels)
       \/ One({NestedPathsThrow(e, Tail(paths), next) :
                 next \in {addNestedRelationsToJoin(paths[1], e, rels)}})

\* the loop over this.entity.fields pushing every to-one relation
RECURSIVE RootRelationsFrom(_, _)
RootRelationsFrom(e, i) ==
  IF i > Len(Entity(e).fields) THEN <<>>
  ELSE (IF Entity(e).fields[i].rel = NoEntity THEN <<>>
        ELSE <<RelationOf(Entity(e).fields[i],
                 getRelationDetails(e, Entity(e).fields[i].key).fkField)>>)
         \o RootRelationsFrom(e, i + 1)

detectDefaultIncludedRelations(e) ==
  One({AddNestedPaths(e, paths, roots) :
         paths \in {detectNestedPathsInSqlExpressions(e)},
         roots \in {RootRelationsFrom(e, 1)}})

\* detectDefaultIncludedRelations does not return: it raises a TypeError
PlanningThrows(e) ==
  One({NestedPathsThrow(e, paths, roots) :
         paths \in {detectNestedPathsInSqlExpressions(e)},
         roots \in {RootRelationsFrom(e, 1)}})

\* the filter of find() and count(): to-one relations with a foreign key
IsJoinable(e, r) ==
  ~r.isArray
    /\ (r.fkField # NoField
          \/ (r.optField # NoKey /\ FieldByKey(e, r.optField) # NoField))

RECURSIVE SelectSeq2(_, _)
SelectSeq2(e, rels) ==
  IF Len(rels) = 0 THEN <<>>
  ELSE (IF IsJoinable(e, rels[1]) THEN <<rels[1]>> ELSE <<>>)
         \o SelectSeq2(e, Tail(rels))

relationsToJoin(e) ==
  One({SelectSeq2(e, rels) : rels \in {detectDefaultIncludedRelations(e)}})


-----------------------------------------------------------------------------
(* SQL fragments, kept in parsed form.  An identifier pair alias.column is  *)
(* what col(alias, column) denotes once the engine has read the quoting.   *)

mainTableAlias == K("main")

Col(alias, column) == [k |-> "col", alias |-> alias, col |-> column]
SqlNull == [k |-> "null"]
\* (SELECT sel FROM table WHERE idCol = corrAlias.corrCol)
Subquery(table, sel, idCol, corrAlias, corrCol) ==
  [k |-> "subquery", table |-> table, sel |-> sel, idCol |-> idCol,
   corrAlias |-> corrAlias, corrCol |-> corrCol]
\* text that is no SQL expression: an unresolved '@JOIN:' token, or a
\* fragment followed by the rest of a token
Malformed(what) == [k |-> "malformed", what |-> what]

Selected(expr, as) == [expr |-> expr, as |-> as]

EmptyPlan == [validJoins |-> <<>>, joins |-> <<>>, selectColumns |-> <<>>]

\* an alias made of the key of the relation alone
JoinAliasOfKeyOnly(prefix, fieldKey) == <<"join", U>> \o fieldKey

\* currentJoinAlias of processRelation
JoinAlias(prefix, fieldKey) ==
  IF prefix # <<>> THEN <<"join", U>> \o prefix \o <<U>> \o fieldKey
  ELSE <<"join", U>> \o fieldKey

PrefixedKey(prefix, fieldKey) ==
  IF prefix # <<>> THEN prefix \o <<U>> \o fieldKey ELSE fieldKey

\* fieldsToSelect of processRelation, then the loop pushing them to SELECT
IsSelectedField(relatedEntity, include, f) ==
  LET isId == f.key = Entity(relatedEntity).idKey
      nameKey == Entity(relatedEntity).nameKey
      includeSet == {include.items[i].field : i \in 1..Len(include.items)}
      explicitlyIncluded == f.key \in includeSet \/ f.dbName \in includeSet
  IN f.rel = NoEntity
       /\ IF include.has
          THEN isId \/ explicitlyIncluded
                 \/ (nameKey # NoKey /\ nameKey \in includeSet
                       /\ f.key = nameKey)
          ELSE isId \/ (nameKey # NoKey /\ f.key = nameKey)

ColumnAliasOf(include, f) ==
  LET I == {i \in 1..Len(include.items) :
              include.items[i].field = f.key /\ include.items[i].as # NoKey}
  IN IF I = {} THEN f.key
     ELSE include.items[CHOOSE i \in I : \A j \in I : j <= i].as

SkipsNestedId(relatedEntity, prefix, f) ==
  prefix # <<>> /\ f.key = Entity(relatedEntity).idKey

RECURSIVE JoinedColumnsFrom(_, _, _, _, _)
JoinedColumnsFrom(relatedEntity, include, alias, prefix, i) ==
  LET fs == Entity(relatedEntity).fields IN
  IF i > Len(fs) THEN <<>>
  ELSE LET f == fs[i]
           taken ==
             IsSelectedField(relatedEntity, include, f)
               /\ ~HasSqlExpression(f) /\ ~f.server
               /\ ~SkipsNestedId(relatedEntity, prefix, f)
       IN (IF taken
           THEN <<Selected(Col(alias, getFieldDbName(f)),
                           alias \o <<U, U>> \o ColumnAliasOf(include, f))>>
           ELSE <<>>)
            \o JoinedColumnsFrom(relatedEntity, include, alias, prefix, i + 1)

RECURSIVE processRelation(_, _, _, _, _)
RECURSIVE ProcessIncludeItems(_, _, _, _, _)
RECURSIVE ProcessNestedRelations(_, _, _, _, _)

\* the loop over fieldsToInclude: an item that is a relation of the joined
\* entity becomes a nested join
ProcessIncludeItems(st, items, alias, relatedEntity, newPrefix) ==
  IF Len(items) = 0 THEN st
  ELSE LET itemField == FieldByKey(relatedEntity, items[1].field)
           nestedRelation ==
             RelationOf(itemField,
               getRelationDetails(relatedEntity, itemField.key).fkField)
       IN One({ProcessIncludeItems(next, Tail(items), alias, relatedEntity,
                                   newPrefix) :
                 next \in {IF itemField # NoField /\ itemField.rel # NoEntity
                            THEN processRelation(st, nestedRelation, alias,
                                                 relatedEntity, newPrefix)
                            ELSE st}})

\* the loop over relation.nestedRelations
ProcessNestedRelations(st, rels, alias, relatedEntity, newPrefix) ==
  IF Len(rels) = 0 THEN st
  ELSE One({ProcessNestedRelations(next, Tail(rels), alias, relatedEntity,
                                   newPrefix) :
              next \in {processRelation(st, rels[1], alias, relatedEntity,
                                         newPrefix)}})

processRelation(st, relation, parentAlias, parentEntity, prefix) ==
  LET relatedEntity == relation.relatedEntity
      currentJoinAlias == JoinAlias(prefix, relation.fieldKey)
      byOption == FieldByKey(parentEntity, relation.optField)
      fkFieldMeta ==
        IF relation.fkField # NoField THEN relation.fkField
        ELSE IF byOption # NoField THEN byOption
        ELSE FieldByKey(parentEntity, ConventionFk(relation.fieldKey))
      idKey == Entity(relatedEntity).idKey
      alreadyExists ==
        \E j \in 1..Len(st.validJoins) :
          st.validJoins[j].joinAlias = currentJoinAlias
      newPrefix == PrefixedKey(prefix, relation.fieldKey)
      joined ==
        [validJoins |-> Append(st.validJoins,
           [fieldKey |-> newPrefix, relatedEntity |-> relatedEntity,
            joinAlias |-> currentJoinAlias]),
         joins |-> Append(st.joins,
           [alias |-> currentJoinAlias, table |-> relatedEntity,
            parentAlias |-> parentAlias,
            fkCol |-> getFieldDbName(fkFieldMeta),
            idCol |-> getFieldDbName(FieldByKey(relatedEntity, idKey))]),
         selectColumns |-> st.selectColumns
           \o JoinedColumnsFrom(relatedEntity, relation.include,
                                currentJoinAlias, prefix, 1)]
      fieldsToInclude ==
        IF ~alreadyExists /\ relation.include.has
        THEN relation.include.items ELSE <<>>
  IN IF relatedEntity = NoEntity \/ fkFieldMeta = NoField \/ idKey = NoKey
     THEN st
     ELSE One({ProcessNestedRelations(st2, nested, alias, relatedEntity,
                                      px) :
                 st2 \in {One({ProcessIncludeItems(st1, fieldsToInclude,
                                  alias, relatedEntity, px) :
                               st1 \in {IF alreadyExists THEN st
                                         ELSE joined},
                               alias \in {currentJoinAlias},
                               px \in {newPrefix}})},
                 nested \in {relation.nested},
                 alias \in {currentJoinAlias},
                 px \in {newPrefix}})

\* the columns of the main table pushed before the joins: every field that
\* has neither a sqlExpression nor a serverExpression
RECURSIVE MainColumnsFrom(_, _)
MainColumnsFrom(e, i) ==
  LET fs == Entity(e).fields IN
  IF i > Len(fs) THEN <<>>
  ELSE (IF ~HasSqlExpression(fs[i]) /\ ~fs[i].server
        THEN <<Selected(Col(mainTableAlias, getFieldDbName(fs[i])),
                        fs[i].key)>>
        ELSE <<>>) \o MainColumnsFrom(e, i + 1)

\* the loop "for (const relation of relationsToJoin)"
PlanJoins(e, rels) ==
  One({ProcessNestedRelations(st, r, mainTableAlias, e, <<>>) :
         st \in {[EmptyPlan EXCEPT !.selectColumns = MainColumnsFrom(e, 1)]},
         r \in {rels}})


-----------------------------------------------------------------------------
(* Expression Resolver *)

NoJoin == [fieldKey |-> NoKey, relatedEntity |-> NoEntity, joinAlias |-> NoKey]

\* validJoins.find(j => j.joinAlias === alias)
JoinByAlias(validJoins, alias) ==
  LET I == {i \in 1..Len(validJoins) : validJoins[i].joinAlias = alias}
  IN IF I = {} THEN NoJoin ELSE validJoins[Min(I)]

\* relatedEntity.idMetadata?.fields?.[0] dbName, 'id' when none is declared
IdDbNameOrDefault(e) ==
  IF Entity(e).idKey = NoKey THEN K("id")
  ELSE getFieldDbName(FieldByKey(e, Entity(e).idKey))

\* a degraded form that finds the foreign key by the '<relation>Id'
\* convention only and never consults getRelationDetails
simpleJoinToSubqueryByConventionOnly(e, relationKey, fieldName, tableAlias) ==
  One({One({IF fkField = NoField \/ relatedEntity = NoEntity THEN SqlNull
            ELSE IF relatedField = NoField THEN SqlNull
            ELSE Subquery(relatedEntity, getFieldDbName(relatedField),
                          IdDbNameOrDefault(relatedEntity), tableAlias,
                          getFieldDbName(fkField)) :
              relatedEntity \in {fkField.rel},
              relatedField \in {FieldByKeyOrDbName(fkField.rel, fieldName)}}) :
         fkField \in {FieldByKey(e, ConventionFk(relationKey))}})

\* simpleJoinToSubquery of the provider: the degraded form of a single-hop
\* token
simpleJoinToSubquery(e, relationKey, fieldName, tableAlias) ==
  One({LET fkField ==
             IF relationDetails.fkField # NoField THEN relationDetails.fkField
             ELSE fkFieldByConvention
           relationInfo ==
             IF relationDetails.relationField # NoField
                  /\ relationDetails.relationField.rel # NoEntity
             THEN relationDetails.relationField.rel
             ELSE fkField.rel
       IN One({IF fkField = NoField \/ relatedEntity = NoEntity THEN SqlNull
               ELSE IF relatedField = NoField THEN SqlNull
               ELSE Subquery(relatedEntity, getFieldDbName(relatedField),
                             IdDbNameOrDefault(relatedEntity), tableAlias,
                             getFieldDbName(fkField)) :
                 relatedEntity \in {relationInfo},
                 relatedField \in
                   {FieldByKeyOrDbName(relationInfo, fieldName)}}) :
         relationDetails \in {getRelationDetails(e, relationKey)},
         fkFieldByConvention \in {FieldByKey(e, ConventionFk(relationKey))}})

\* convertJoinToSubquery of the filter bridge: /@JOIN:(\w+)\.(\w+)/ takes
\* the first two segments of the token, whatever follows stays in the text
bridgeConvertJoinToSubquery(e, parts, tableAlias) ==
  One({One({IF Len(parts) > 2 THEN Malformed("rest of token")
            ELSE IF fkField = NoField \/ fkField.rel = NoEntity THEN SqlNull
            ELSE IF relatedField = NoField THEN SqlNull
            ELSE Subquery(fkField.rel, getFieldDbName(relatedField),
                          IdDbNameOrDefault(fkField.rel), tableAlias,
                          getFieldDbName(fkField)) :
              relatedField \in {FieldByKeyOrDbName(fkField.rel, parts[2])}}) :
         fkField \in {FieldByKey(e, ConventionFk(parts[1]))}})

\* convertJoinToSubqueryFromJoinContext: the token of a virtual target
\* field, correlated to the join alias
convertJoinToSubqueryFromJoinContext(parts, joinAlias, joinedEntity) ==
  IF Len(parts) < 2 THEN Malformed("token")
  ELSE IF Len(parts) > 2 THEN Malformed("rest of token")
  ELSE One({One({IF fkField = NoField \/ relationField = NoField
                      \/ relationField.rel = NoEntity THEN SqlNull
                 ELSE IF targetField = NoField THEN SqlNull
                 ELSE Subquery(relationField.rel,
                               getFieldDbName(targetField),
                               IdDbNameOrDefault(relationField.rel),
                               joinAlias, getFieldDbName(fkField)) :
                   targetField \in
                     {FieldByKeyOrDbName(relationField.rel, parts[2])}}) :
              fkField \in {FieldByKey(joinedEntity, ConventionFk(parts[1]))},
              relationField \in {FieldByKey(joinedEntity, parts[1])}})

\* findWithJoins, deferred sqlExpression field whose text is one token
\* (/^@JOIN:([\w.]+)$/): the SQL projected for it
ProjectToken(validJoins, parts) ==
  IF Len(parts) < 2 THEN SqlNull
  ELSE One({One({IF matchingJoin = NoJoin THEN SqlNull
                 ELSE IF relatedField = NoField THEN SqlNull
                 ELSE IF relatedField.expr # <<>>
                 THEN convertJoinToSubqueryFromJoinContext(
                        relatedField.expr, matchingJoin.joinAlias,
                        matchingJoin.relatedEntity)
                 ELSE Col(matchingJoin.joinAlias,
                          getFieldDbName(relatedField)) :
                   relatedField \in
                     {FieldByKeyOrDbName(matchingJoin.relatedEntity,
                                         parts[Len(parts)])}}) :
              matchingJoin \in
                {JoinByAlias(validJoins,
                   <<"join", U>>
                     \o JoinU(SubSeq(parts, 1, Len(parts) - 1)))}})

\* tryGenerateSqlFromServerExpression: the column of the joined relation a
\* serverExpression reads (/\w+\.(\w+)\?\.(\w+)/ on its source text); NoSql
\* when it returns null
tryGenerateSqlFromServerExpression(validJoins, auto) ==
  IF auto = <<>> THEN NoSql
  ELSE One({One({IF join = NoJoin THEN NoSql
                 ELSE IF targetField = NoField THEN NoSql
                 ELSE IF HasSqlExpression(targetField) \/ targetField.server
                 THEN NoSql
                 ELSE Col(join.joinAlias, getFieldDbName(targetField)) :
                   targetField \in {FieldByKey(join.relatedEntity, auto[2])}}) :
              join \in {JoinByAlias(validJoins, <<"join", U>> \o auto[1])}})

\* a sqlExpression that is no token: '[Table].' and 'Table.' become the
\* alias of the main table, a column without a prefix that is a field of
\* the main table gets that alias, every other alias is kept as written
RewriteHandWritten(e, tableAlias, sql) ==
  IF sql.k # "col" THEN sql
  ELSE IF sql.alias = K(Entity(e).key) THEN Col(tableAlias, sql.col)
  ELSE IF sql.alias = NoKey /\ FieldByKeyOrDbName(e, sql.col) # NoField
  THEN Col(tableAlias, sql.col)
  ELSE sql

\* the loop over deferredFields: sqlExpression fields are projected, a
\* serverExpression field with no recognisable source pattern is not
RECURSIVE DeferredColumnsFrom(_, _, _)
DeferredColumnsFrom(e, validJoins, i) ==
  IF i > Len(Entity(e).fields) THEN <<>>
  ELSE One({(IF f.expr # <<>>
             THEN <<Selected(ProjectToken(validJoins, f.expr), f.key)>>
             ELSE IF f.sql # NoSql
             THEN <<Selected(RewriteHandWritten(e, mainTableAlias, f.sql),
                             f.key)>>
             ELSE IF f.server /\ autoSql # NoSql
             THEN <<Selected(autoSql, f.key)>>
             ELSE <<>>) \o DeferredColumnsFrom(e, validJoins, i + 1) :
              f \in {Entity(e).fields[i]},
              autoSql \in {tryGenerateSqlFromServerExpression(
                             validJoins, Entity(e).fields[i].auto)}})

\* FilterToKnexBridge.getColumnNameAsync: the SQL a filter leaf or a sort
\* key uses for a field; Dropped when it returns null
Dropped == [k |-> "dropped"]

getColumnNameAsync(e, validJoins, tableAlias, col) ==
  IF col.sql # NoSql
  THEN (IF Len(validJoins) > 0
        THEN RewriteHandWritten(e, tableAlias, col.sql) ELSE Dropped)
  ELSE IF col.expr = <<>>
  THEN One({IF col.server /\ Len(validJoins) > 0 /\ autoSql # NoSql
            THEN autoSql ELSE Col(tableAlias, getFieldDbName(col)) :
              autoSql \in {tryGenerateSqlFromServerExpression(
                             validJoins, col.auto)}})
  ELSE IF Len(col.expr) < 2
  THEN (IF Len(validJoins) > 0 THEN Malformed("token") ELSE Dropped)
  ELSE One({IF matchingJoin = NoJoin
            THEN bridgeConvertJoinToSubquery(e, col.expr, tableAlias)
            ELSE One({IF relatedField # NoField
                      THEN Col(matchingJoin.joinAlias,
                               getFieldDbName(relatedField))
                      ELSE Dropped :
                        relatedField \in
                          {FieldByKeyOrDbName(matchingJoin.relatedEntity,
                                              col.expr[Len(col.expr)])}}) :
              matchingJoin \in
                {JoinByAlias(validJoins,
                   <<"join", U>>
                     \o JoinU(SubSeq(col.expr, 1, Len(col.expr) - 1)))}})


\* nestedJoinToSubquery of the provider: the degraded form of a multi-hop
\* token.  hops[i] is the table of hop i with its id column and, from the
\* second hop on, the foreign key column of the previous hop it joins on.
NestedSubquery(hops, sel, firstId, corrAlias, corrCol) ==
  [k |-> "nested", hops |-> hops, sel |-> sel, firstId |-> firstId,
   corrAlias |-> corrAlias, corrCol |-> corrCol]

NoHops == [ok |-> FALSE, hops |-> <<>>, last |-> NoEntity]

RECURSIVE NestedHops(_, _, _)
NestedHops(relationPath, currentEntity, hops) ==
  IF Len(relationPath) = 0
  THEN [ok |-> TRUE, hops |-> hops, last |-> currentEntity]
  ELSE One({LET fkField ==
                  IF relationDetails.fkField # NoField
                  THEN relationDetails.fkField ELSE fkFieldByConvention
                relationField == relationDetails.relationField
                nextEntity == relationDetails.relatedEntity
            IN IF fkField = NoField \/ relationField = NoField
                    \/ nextEntity = NoEntity
               THEN NoHops
               ELSE NestedHops(Tail(relationPath), nextEntity,
                      Append(walked,
                             [table |-> nextEntity,
                              idCol |-> IdDbNameOrDefault(nextEntity),
                              fkCol |-> getFieldDbName(fkField)])) :
              walked \in {hops},
              relationDetails \in
                {getRelationDetails(currentEntity, relationPath[1])},
              fkFieldByConvention \in
                {FieldByKey(currentEntity, ConventionFk(relationPath[1]))}})

nestedJoinToSubquery(e, relationPath, fieldName, tableAlias) ==
  One({One({IF ~walk.ok THEN SqlNull
            ELSE IF targetField = NoField THEN SqlNull
            ELSE IF firstFkField = NoField THEN SqlNull
            ELSE IF firstRelationField = NoField
                      \/ firstRelationField.rel = NoEntity THEN SqlNull
            ELSE NestedSubquery(walk.hops, getFieldDbName(targetField),
                                IdDbNameOrDefault(firstRelationField.rel),
                                tableAlias, getFieldDbName(firstFkField)) :
              targetField \in {FieldByKeyOrDbName(walk.last, fieldName)}}) :
         walk \in {NestedHops(relationPath, e, <<>>)},
         firstFkField \in {FieldByKey(e, ConventionFk(relationPath[1]))},
         firstRelationField \in {FieldByKey(e, relationPath[1])}})

\* convertJoinToSubquery of the provider (/@JOIN:([\w.]+)/): the degraded
\* definition installed by cleanJoinReferences for a reference token
convertJoinToSubquery(e, parts, tableAlias) ==
  IF Len(parts) < 2 THEN SqlNull
  ELSE IF Len(parts) = 2
  THEN simpleJoinToSubquery(e, parts[1], parts[2], tableAlias)
  ELSE nestedJoinToSubquery(e, SubSeq(parts, 1, Len(parts) - 1),
                            parts[Len(parts)], tableAlias)

-----------------------------------------------------------------------------
(* Filter Translator *)

\* A filter of the request: all rows, field = value, OR / AND of filters
All == [k |-> "all"]
Eq(field, val) == [k |-> "eq", field |-> field, val |-> val]
Or(items) == [k |-> "or", items |-> items]
And(items) == [k |-> "and", items |-> items]
Not(item) == [k |-> "not", item |-> item]

\* membership and case-insensitive text match leaves; the operand of a text
\* match is a string, kept as its characters
In(field, vals) == [k |-> "in", field |-> field, vals |-> vals]
Contains(field, val) == [k |-> "contains", field |-> field, val |-> val]
NotContains(field, val) ==
  [k |-> "notContains", field |-> field, val |-> val]
StartsWithText(field, val) ==
  [k |-> "startsWith", field |-> field, val |-> val]
EndsWithText(field, val) == [k |-> "endsWith", field |-> field, val |-> val]

\* a custom filter that was not translated before it got to the provider
Custom(key) == [k |-> "custom", key |-> key]

\* filter.__applyToConsumer(bridge); bridge.resolveWhere() raises an error:
\* custom() throws, at once or inside the promise of an or() or a not()
RECURSIVE TranslateThrows(_)
TranslateThrows(f) ==
  CASE f.k = "custom" -> TRUE
    [] f.k \in {"or", "and"} ->
         \E i \in 1..Len(f.items) : TranslateThrows(f.items[i])
    [] f.k = "not" -> TranslateThrows(f.item)
    [] OTHER -> FALSE

Cmp(expr, val) == [k |-> "cmp", expr |-> expr, val |-> val]
AnyOf(alts) == [k |-> "anyOf", alts |-> alts]
NoneOf(conds) == [k |-> "noneOf", conds |-> conds]
\* knex.whereIn(colName, vals)
MemberOf(expr, vals) == [k |-> "in", expr |-> expr, vals |-> vals]
\* whereRaw / orWhereRaw(sql, bindings): sql is the template literal of the
\* bridge with the column name and whatever else it interpolates
Raw(template, colName, interpolated, bindings, orWhere) ==
  [k |-> "raw", template |-> template, colName |-> colName,
   interpolated |-> interpolated, bindings |-> bindings,
   orWhere |-> orWhere]

\* val.replace(/\s+/g, '%')
RECURSIVE SpacesToPercent(_)
SpacesToPercent(val) ==
  IF Len(val) = 0 THEN <<>>
  ELSE IF val[1] # " " THEN <<val[1]>> \o SpacesToPercent(Tail(val))
  ELSE IF Len(val) > 1 /\ val[2] = " " THEN SpacesToPercent(Tail(val))
  ELSE <<"%">> \o SpacesToPercent(Tail(val))

\* val.replace(/'/g, "''")
RECURSIVE DoubleQuotes(_)
DoubleQuotes(val) ==
  IF Len(val) = 0 THEN <<>>
  ELSE (IF val[1] = "'" THEN <<"'", "'">> ELSE <<val[1]>>)
         \o DoubleQuotes(Tail(val))

\* a text match that writes the pattern into the statement
containsCaseInsensitiveInText(colName, val) ==
  Raw("lower (${colName}) like lower ('${finalPattern}')", colName,
      <<<<"%">> \o SpacesToPercent(val) \o <<"%">>>>, <<>>, TRUE)

containsCaseInsensitive(colName, val) ==
  Raw("lower (${colName}) like lower (?)", colName, <<>>,
      <<<<"%">> \o SpacesToPercent(val) \o <<"%">>>>, TRUE)

notContainsCaseInsensitive(colName, val) ==
  Raw("not lower (${colName}) like lower (?)", colName, <<>>,
      <<<<"%">> \o DoubleQuotes(val) \o <<"%">>>>, FALSE)

startsWithCaseInsensitive(colName, val) ==
  Raw("lower (${colName}) like lower (?)", colName, <<>>,
      <<DoubleQuotes(val) \o <<"%">>>>, FALSE)

endsWithCaseInsensitive(colName, val) ==
  Raw("lower (${colName}) like lower (?)", colName, <<>>,
      <<<<"%">> \o DoubleQuotes(val)>>, FALSE)

\* a Date of the caller and valueConverter.toDb of it
DateValue(day) == [date |-> day]
toDb(val) == <<"2024", "-", val.date>>

\* translateValue(col, val): through the valueConverter of the field
translateValue(col, val) ==
  IF col.converter = "date" THEN toDb(val) ELSE val

RECURSIVE Translate(_, _, _)
RECURSIVE TranslateEach(_, _, _)

\* the branches of or(): each element through a bridge of its own
TranslateEach(e, validJoins, items) ==
  IF Len(items) = 0 THEN <<>>
  ELSE <<Translate(e, validJoins, items[1])>>
         \o TranslateEach(e, validJoins, Tail(items))

RECURSIVE ConcatAll(_)
ConcatAll(seqs) ==
  IF Len(seqs) = 0 THEN <<>> ELSE seqs[1] \o ConcatAll(Tail(seqs))

\* a translation whose or() skips a branch without conditions and applies
\* the other branches
TranslateSkippingEmptyBranches(e, validJoins, f) ==
  CASE f.k = "all" -> <<>>
    [] f.k = "eq" ->
         LET colName == getColumnNameAsync(e, validJoins, mainTableAlias,
                                           FieldByKey(e, f.field))
         IN IF colName = Dropped THEN <<>>
            ELSE <<Cmp(colName,
                       translateValue(FieldByKey(e, f.field), f.val))>>
    [] f.k = "or" ->
         LET alts == SelectSeq(TranslateEach(e, validJoins, f.items),
                               LAMBDA conds : Len(conds) > 0)
         IN IF Len(alts) = 0 THEN <<>> ELSE <<AnyOf(alts)>>
    [] f.k = "and" -> ConcatAll(TranslateEach(e, validJoins, f.items))
    [] f.k = "not" ->
         LET conds == Translate(e, validJoins, f.item)
         IN IF Len(conds) = 0 THEN <<>> ELSE <<NoneOf(conds)>>

\* filter.__applyToConsumer(bridge); bridge.resolveWhere(): the list of
\* conditions, ANDed by the caller.  add() skips a leaf whose column is
\* null; or() with an empty branch pushes nothing ("means all rows"), and
\* so does not() of an element without conditions
Translate(e, validJoins, f) ==
  CASE f.k = "all" -> <<>>
    [] f.k = "eq" ->
         LET colName == getColumnNameAsync(e, validJoins, mainTableAlias,
                                           FieldByKey(e, f.field))
         IN IF colName = Dropped THEN <<>>
            ELSE <<Cmp(colName,
                       translateValue(FieldByKey(e, f.field), f.val))>>
    [] f.k = "or" ->
         LET alts == TranslateEach(e, validJoins, f.items)
         IN IF \E i \in 1..Len(alts) : Len(alts[i]) = 0 THEN <<>>
            ELSE IF Len(alts) = 0 THEN <<>>
            ELSE <<AnyOf(alts)>>
    [] f.k = "and" -> ConcatAll(TranslateEach(e, validJoins, f.items))
    [] f.k = "not" ->
         LET conds == Translate(e, validJoins, f.item)
         IN IF Len(conds) = 0 THEN <<>> ELSE <<NoneOf(conds)>>
    [] f.k \in {"in", "contains", "notContains", "startsWith", "endsWith"} ->
         LET colName == getColumnNameAsync(e, validJoins, mainTableAlias,
                                           FieldByKey(e, f.field))
         IN IF colName = Dropped THEN <<>>
            ELSE IF f.k = "in"
            THEN <<MemberOf(colName,
                     [i \in 1..Len(f.vals) |->
                        translateValue(FieldByKey(e, f.field), f.vals[i])])>>
            ELSE IF f.k = "contains"
            THEN <<containsCaseInsensitive(colName, f.val)>>
            ELSE IF f.k = "notContains"
            THEN <<notContainsCaseInsensitive(colName, f.val)>>
            ELSE IF f.k = "startsWith"
            THEN <<startsWithCaseInsensitive(colName, f.val)>>
            ELSE <<endsWithCaseInsensitive(colName, f.val)>>


-----------------------------------------------------------------------------
(* The SQL engine behind knex: what a statement built by the provider      *)
(* returns over the stored rows.  A stored row maps column names to        *)
(* values; db[e] is the table of entity e in primary-key order.            *)

\* the columns of the table of e: its fields that are stored
PhysicalColumns(e) ==
  {getFieldDbName(Entity(e).fields[i]) :
     i \in {j \in 1..Len(Entity(e).fields) :
              ~HasSqlExpression(Entity(e).fields[j])
                /\ ~Entity(e).fields[j].server}}

\* the all-NULL row a LEFT JOIN supplies when nothing matches
NullRow(e) == [c \in PhysicalColumns(e) |-> Null]

\* the rows in scope of a statement: one per alias, in FROM / JOIN order
Bound(alias, e, row) == [alias |-> alias, table |-> e, row |-> row]

HasAlias(binding, alias) ==
  \E i \in 1..Len(binding) : binding[i].alias = alias

BoundAt(binding, alias) ==
  binding[Min({i \in 1..Len(binding) : binding[i].alias = alias})]

\* the row of table e whose column idCol equals v (ids are unique)
Lookup(e, idCol, v) ==
  LET M == {i \in 1..Len(db[e]) : v # Null /\ db[e][i][idCol] = v}
  IN IF M = {} THEN NullRow(e) ELSE db[e][Min(M)]

HasColumn(binding, alias, column) ==
  HasAlias(binding, alias)
    /\ column \in PhysicalColumns(BoundAt(binding, alias).table)

\* LEFT JOIN table AS alias ON parentAlias.fkCol = alias.idCol, in order
RECURSIVE BindJoins(_, _)
BindJoins(binding, joins) ==
  IF Len(joins) = 0 THEN binding
  ELSE LET j == joins[1]
           row == Lookup(j.table, j.idCol,
                         BoundAt(binding, j.parentAlias).row[j.fkCol])
       IN One({BindJoins(next, Tail(joins)) :
                 next \in {Append(binding, Bound(j.alias, j.table, row))}})

\* the rows of the FROM clause for one row of the main table: a LEFT JOIN
\* supplies every row of its table that matches, in the order of the
\* table, and the all-NULL row when none does
RECURSIVE AllBindings(_, _)
RECURSIVE BindEachMatch(_, _, _)
BindEachMatch(binding, joins, i) ==
  LET j == joins[1] IN
  IF i > Len(db[j.table]) THEN <<>>
  ELSE (IF db[j.table][i][j.idCol]
             = BoundAt(binding, j.parentAlias).row[j.fkCol]
        THEN AllBindings(
               Append(binding, Bound(j.alias, j.table, db[j.table][i])),
               Tail(joins))
        ELSE <<>>) \o BindEachMatch(binding, joins, i + 1)

AllBindings(binding, joins) ==
  IF Len(joins) = 0 THEN <<binding>>
  ELSE LET j == joins[1]
           v == BoundAt(binding, j.parentAlias).row[j.fkCol]
       IN IF v = Null \/ \A i \in 1..Len(db[j.table]) :
                           db[j.table][i][j.idCol] # v
          THEN AllBindings(
                 Append(binding, Bound(j.alias, j.table, NullRow(j.table))),
                 Tail(joins))
          ELSE BindEachMatch(binding, joins, 1)

\* the statement compiles: every alias and column it names exists, and no
\* alias is given twice
RECURSIVE JoinsValid(_, _)
JoinsValid(binding, joins) ==
  IF Len(joins) = 0 THEN TRUE
  ELSE LET j == joins[1]
       IN HasColumn(binding, j.parentAlias, j.fkCol)
            /\ j.idCol \in PhysicalColumns(j.table)
            /\ ~HasAlias(binding, j.alias)
            /\ \A next \in {Append(binding,
                                Bound(j.alias, j.table, NullRow(j.table)))} :
                 JoinsValid(next, Tail(joins))

RECURSIVE HopsValid(_, _)
HopsValid(hops, i) ==
  IF i > Len(hops) THEN TRUE
  ELSE hops[i].idCol \in PhysicalColumns(hops[i].table)
         /\ (i > 1 => hops[i].fkCol \in PhysicalColumns(hops[i - 1].table))
         /\ HopsValid(hops, i + 1)

ExprValid(binding, expr) ==
  CASE expr.k = "col" -> HasColumn(binding, expr.alias, expr.col)
    [] expr.k = "null" -> TRUE
    [] expr.k = "subquery" ->
         /\ expr.sel \in PhysicalColumns(expr.table)
         /\ expr.idCol \in PhysicalColumns(expr.table)
         /\ HasColumn(binding, expr.corrAlias, expr.corrCol)
    [] expr.k = "nested" ->
         /\ HopsValid(expr.hops, 1)
         /\ expr.sel \in PhysicalColumns(expr.hops[Len(expr.hops)].table)
         /\ HasColumn(binding, expr.corrAlias, expr.corrCol)
    [] OTHER -> FALSE

\* the row reached through the INNER JOINs of a nested subquery
RECURSIVE FollowHops(_, _, _)
FollowHops(hops, i, row) ==
  IF i > Len(hops) THEN row
  ELSE FollowHops(hops, i + 1,
         Lookup(hops[i].table, hops[i].idCol, row[hops[i].fkCol]))

Eval(binding, expr) ==
  CASE expr.k = "col" -> BoundAt(binding, expr.alias).row[expr.col]
    [] expr.k = "null" -> Null
    [] expr.k = "subquery" ->
         Lookup(expr.table, expr.idCol,
                BoundAt(binding, expr.corrAlias).row[expr.corrCol])[expr.sel]
    [] expr.k = "nested" ->
         FollowHops(expr.hops, 2,
           Lookup(expr.hops[1].table, expr.firstId,
                  BoundAt(binding, expr.corrAlias).row[expr.corrCol]))[expr.sel]

RECURSIVE CondsValid(_, _)
CondsValid(binding, conds) ==
  \A i \in 1..Len(conds) :
    CASE conds[i].k \in {"cmp", "in"} -> ExprValid(binding, conds[i].expr)
      [] conds[i].k = "raw" -> ExprValid(binding, conds[i].colName)
      [] conds[i].k = "anyOf" ->
           \A a \in 1..Len(conds[i].alts) :
             CondsValid(binding, conds[i].alts[a])
      [] conds[i].k = "noneOf" -> CondsValid(binding, conds[i].conds)

\* expr = val is true only for a non-NULL value equal to val
CmpHolds(binding, c) ==
  Eval(binding, c.expr) # Null /\ Eval(binding, c.expr) = c.val

\* the characters of a stored text (a text of the tables is one value)
CharsOf(text) ==
  CASE text = "NYC" -> <<"N", "Y", "C">>
    [] text = "LA" -> <<"L", "A">>
    [] OTHER -> <<text>>

\* lower(): the letters of the texts at hand
Lower(ch) ==
  CASE ch = "A" -> "a" [] ch = "C" -> "c" [] ch = "L" -> "l"
    [] ch = "N" -> "n" [] ch = "Y" -> "y" [] OTHER -> ch

\* lower (text) like lower (pattern): '%' stands for any characters
RECURSIVE Like(_, _)
Like(text, pattern) ==
  IF Len(pattern) = 0 THEN Len(text) = 0
  ELSE IF pattern[1] = "%"
  THEN Like(text, Tail(pattern))
         \/ (Len(text) > 0 /\ Like(Tail(text), pattern))
  ELSE /\ Len(text) > 0
       /\ Lower(text[1]) = Lower(pattern[1])
       /\ Like(Tail(text), Tail(pattern))

\* the truth value of a list of conditions: a comparison with NULL is
\* unknown, NOT of unknown is unknown.  The conditions are joined by AND,
\* one added by orWhereRaw by OR (the first of a list by nothing); AND
\* binds before OR
RECURSIVE TruthOfAll(_, _)
RECURSIVE TruthOfAnd(_, _)
TruthOfAnd(binding, conds) ==
  LET truth(c) ==
        CASE c.k = "cmp" ->
               IF Eval(binding, c.expr) = Null THEN "unknown"
               ELSE IF CmpHolds(binding, c) THEN "true" ELSE "false"
          [] c.k = "in" ->
               IF Eval(binding, c.expr) = Null THEN "unknown"
               ELSE IF \E i \in 1..Len(c.vals) :
                         Eval(binding, c.expr) = c.vals[i]
               THEN "true" ELSE "false"
          [] c.k = "raw" ->
               LET text == Eval(binding, c.colName)
                   pattern == IF Len(c.bindings) > 0 THEN c.bindings[1]
                              ELSE c.interpolated[1]
                   negated ==
                     c.template = "not lower (${colName}) like lower (?)"
               IN IF text = Null THEN "unknown"
                  ELSE IF Like(CharsOf(text), pattern) = ~negated
                  THEN "true" ELSE "false"
          [] c.k = "anyOf" ->
               LET each == {TruthOfAll(binding, c.alts[a]) :
                              a \in 1..Len(c.alts)}
               IN IF "true" \in each THEN "true"
                  ELSE IF "unknown" \in each THEN "unknown" ELSE "false"
          [] c.k = "noneOf" ->
               LET inner == TruthOfAll(binding, c.conds)
               IN IF inner = "true" THEN "false"
                  ELSE IF inner = "false" THEN "true" ELSE "unknown"
      each == {truth(conds[i]) : i \in 1..Len(conds)}
  IN IF "false" \in each THEN "false"
     ELSE IF "unknown" \in each THEN "unknown" ELSE "true"

TruthOfAll(binding, conds) ==
  LET ors == {i \in 2..Len(conds) :
                conds[i].k = "raw" /\ conds[i].orWhere}
  IN IF ors = {} THEN TruthOfAnd(binding, conds)
     ELSE LET each ==
                {TruthOfAnd(binding, SubSeq(conds, 1, Min(ors) - 1)),
                 TruthOfAll(binding, SubSeq(conds, Min(ors), Len(conds)))}
          IN IF "true" \in each THEN "true"
             ELSE IF "unknown" \in each THEN "unknown" ELSE "false"

\* WHERE keeps the rows for which the conditions are true
CondsHold(binding, conds) == TruthOfAll(binding, conds) = "true"

\* the flat row of the SELECT list under its column aliases
FlatRow(binding, selectColumns) ==
  [as \in {selectColumns[i].as : i \in 1..Len(selectColumns)} |->
     Eval(binding,
          selectColumns[Min({i \in 1..Len(selectColumns) :
                               selectColumns[i].as = as})].expr)]

Statement(alias, table, joins, selectColumns, conds) ==
  [alias |-> alias, table |-> table, joins |-> joins,
   selectColumns |-> selectColumns, conds |-> conds]

StatementValid(q) ==
  \A from \in {<<Bound(q.alias, q.table, NullRow(q.table))>>} :
    /\ JoinsValid(from, q.joins)
    /\ \A binding \in {BindJoins(from, q.joins)} :
         /\ \A i \in 1..Len(q.selectColumns) :
              ExprValid(binding, q.selectColumns[i].expr)
         /\ CondsValid(binding, q.conds)

RECURSIVE SelectedFrom(_, _, _)
SelectedFrom(q, bindings, k) ==
  IF k > Len(bindings) THEN <<>>
  ELSE (IF CondsHold(bindings[k], q.conds)
        THEN <<FlatRow(bindings[k], q.selectColumns)>> ELSE <<>>)
         \o SelectedFrom(q, bindings, k + 1)

RECURSIVE RowsFrom(_, _)
RowsFrom(q, i) ==
  IF i > Len(db[q.table]) THEN <<>>
  ELSE One({SelectedFrom(q, bindings, 1) :
              bindings \in {AllBindings(
                 <<Bound(q.alias, q.table, db[q.table][i])>>, q.joins)}})
         \o RowsFrom(q, i + 1)

\* await query
Execute(q) == One({RowsFrom(statement, 1) : statement \in {q}})

\* ORDER BY the id column: ids compare as in Ids
IdPosition(id) == Min({i \in 1..Len(Ids) : Ids[i] = id})

RECURSIVE OrderById(_, _)
OrderById(unordered, descending) ==
  IF Len(unordered) = 0 THEN <<>>
  ELSE LET first ==
             CHOOSE i \in 1..Len(unordered) :
               \A j \in 1..Len(unordered) :
                 IF descending
                 THEN IdPosition(unordered[j][K("id")])
                        <= IdPosition(unordered[i][K("id")])
                 ELSE IdPosition(unordered[i][K("id")])
                        <= IdPosition(unordered[j][K("id")])
       IN <<unordered[first]>>
            \o OrderById(SubSeq(unordered, 1, first - 1)
                           \o SubSeq(unordered, first + 1, Len(unordered)),
                         descending)

\* a paging that takes the page number as the number of pages to skip
PaginateFromPageZero(ordered, limit, page) ==
  IF limit = 0 THEN ordered
  ELSE SubSeq(ordered, page * limit + 1,
              Min({page * limit + limit, Len(ordered)}))

\* query.limit(options.limit) and, with a page,
\* query.offset((options.page - 1) * options.limit)
Paginate(ordered, limit, page) ==
  IF limit = 0 THEN ordered
  ELSE LET offset == IF page # 0 THEN (page - 1) * limit ELSE 0
       IN SubSeq(ordered, offset + 1, Min({offset + limit, Len(ordered)}))

\* await query of a statement with ORDER BY, LIMIT and OFFSET
ExecutePaged(q, descending, limit, page) ==
  Paginate(OrderById(Execute(q), descending), limit, page)


-----------------------------------------------------------------------------
(* Result Assembler *)

\* values handed to the caller: null, a converted value, an object
JsNull == [t |-> "null"]
JsVal(v) == [t |-> "val", v |-> v]
JsObj(o) == [t |-> "obj", o |-> o]
EmptyObject == [k \in {} |-> JsNull]

\* a stored value no converter accepts
Bad == "bad"

\* field.valueConverter.fromDb(v): throws on a value it cannot convert
CanConvert(v) == v # Bad
fromDb(v) == IF v = Null THEN JsNull ELSE JsVal(v)

\* obj[key] = value
SetKey(o, key, value) ==
  [k \in DOMAIN o \cup {key} |-> IF k = key THEN value ELSE o[k]]

\* the keys of the flat row that belong to the root object
RootKeys(row) == {key \in DOMAIN row : ~IncludesUU(key)}

\* the keys of the flat row that belong to a join, by column-alias prefix
JoinKeys(row, join) ==
  {key \in DOMAIN row : StartsWith(key, join.joinAlias \o <<U, U>>)}

JoinFieldKey(join, key) == Substring(key, Len(join.joinAlias) + 2)

relatedObject(row, join) ==
  [fieldKey \in {JoinFieldKey(join, key) : key \in JoinKeys(row, join)} |->
     fromDb(row[join.joinAlias \o <<U, U>> \o fieldKey])]

hasData(row, join) == \E key \in JoinKeys(row, join) : row[key] # Null

\* the walk "if (!target[parts[i]]) target[parts[i]] = {}" followed by
\* target[lastKey] = value
RECURSIVE SetNested(_, _, _)
SetNested(o, parts, value) ==
  IF Len(parts) = 1 THEN SetKey(o, parts[1], value)
  ELSE LET present == parts[1] \in DOMAIN o /\ o[parts[1]].t = "obj"
           target == IF present THEN o[parts[1]].o ELSE EmptyObject
       IN SetKey(o, parts[1], JsObj(SetNested(target, Tail(parts), value)))

\* the loop over validJoins of one row
RECURSIVE AssignJoins(_, _, _)
AssignJoins(mainEntity, row, joins) ==
  IF Len(joins) = 0 THEN mainEntity
  ELSE LET join == joins[1]
           value == IF hasData(row, join)
                    THEN JsObj(relatedObject(row, join)) ELSE JsNull
           assigned ==
             IF IncludesU(join.fieldKey)
             THEN SetNested(mainEntity, SplitU(join.fieldKey), value)
             ELSE SetKey(mainEntity, join.fieldKey, value)
       IN One({AssignJoins(next, row, Tail(joins)) : next \in {assigned}})

\* the field whose conversion throws, NoKey when every value converts
FailingKey(e, row, validJoins) ==
  LET rootBad == {key \in RootKeys(row) :
                    FieldByKey(e, key) # NoField /\ ~CanConvert(row[key])}
      joinBad == {key \in DOMAIN row :
                    \E j \in 1..Len(validJoins) :
                      /\ key \in JoinKeys(row, validJoins[j])
                      /\ FieldByKey(validJoins[j].relatedEntity,
                                    JoinFieldKey(validJoins[j], key))
                           # NoField
                      /\ ~CanConvert(row[key])}
  IN IF rootBad \cup joinBad = {} THEN NoKey
     ELSE CHOOSE key \in rootBad \cup joinBad : TRUE

MapRow(e, row, validJoins) ==
  AssignJoins([key \in RootKeys(row) |-> fromDb(row[key])], row, validJoins)

\* rawResults.map(row => ...); the serverExpression of a relation field
\* yields undefined and leaves the object as it is
mapJoinedResults(e, rawResults, validJoins) ==
  One({[i \in 1..Len(raw) |-> JsObj(MapRow(e, raw[i], joins))] :
         raw \in {rawResults}, joins \in {validJoins}})

\* some row of the result makes mapJoinedResults throw
ConversionFails(e, rawResults, validJoins) ==
  \E i \in 1..Len(rawResults) :
    FailingKey(e, rawResults[i], validJoins) # NoKey


-----------------------------------------------------------------------------
(* The base entity provider the calls are delegated to.  It knows no joins: *)
(* it reads the table under its own name and takes the SQL of a virtual    *)
(* field from the sqlExpression found on the field options at that time.   *)

Original == "original"
Degraded == "degraded"

VirtualKeys(e) ==
  {Entity(e).fields[i].key :
     i \in {j \in 1..Len(Entity(e).fields) : Entity(e).fields[j].expr # <<>>}}

\* the definitions as declared, and as cleanJoinReferences leaves them
OriginalDefs(e) == [key \in VirtualKeys(e) |-> Original]
cleanJoinReferences(e) == [key \in VirtualKeys(e) |-> Degraded]

\* what the installed sqlExpression of a field returns: the override
\* calls convertJoinToSubquery with the table name as alias, the original
\* returns the token
InstalledSql(e, d, field) ==
  IF d[field.key] = Degraded
  THEN convertJoinToSubquery(e, field.expr, K(e))
  ELSE Malformed("token")

BaseColumn(e, d, field) ==
  IF field.expr # <<>> THEN InstalledSql(e, d, field)
  ELSE Col(K(e), getFieldDbName(field))

RECURSIVE BaseColumnsFrom(_, _, _)
BaseColumnsFrom(e, d, i) ==
  LET fs == Entity(e).fields IN
  IF i > Len(fs) THEN <<>>
  ELSE (IF fs[i].server THEN <<>>
        ELSE <<Selected(BaseColumn(e, d, fs[i]), fs[i].key)>>)
         \o BaseColumnsFrom(e, d, i + 1)

RECURSIVE BaseTranslate(_, _, _)
RECURSIVE BaseTranslateEach(_, _, _)
BaseTranslateEach(e, d, items) ==
  IF Len(items) = 0 THEN <<>>
  ELSE <<BaseTranslate(e, d, items[1])>>
         \o BaseTranslateEach(e, d, Tail(items))

BaseTranslate(e, d, f) ==
  CASE f.k = "all" -> <<>>
    [] f.k = "eq" -> <<Cmp(BaseColumn(e, d, FieldByKey(e, f.field)), f.val)>>
    [] f.k = "or" ->
         IF Len(f.items) = 0 THEN <<>>
         ELSE <<AnyOf(BaseTranslateEach(e, d, f.items))>>
    [] f.k = "and" -> ConcatAll(BaseTranslateEach(e, d, f.items))
    [] f.k = "not" ->
         IF Len(BaseTranslate(e, d, f.item)) = 0 THEN <<>>
         ELSE <<NoneOf(BaseTranslate(e, d, f.item))>>

BaseFindStatement(e, d, f) ==
  Statement(K(e), e, <<>>, BaseColumnsFrom(e, d, 1), BaseTranslate(e, d, f))

BaseCountStatement(e, d, f) ==
  Statement(K(e), e, <<>>, <<>>, BaseTranslate(e, d, f))


-----------------------------------------------------------------------------
(* Query Assembler: the statements of findWithJoins and countWithJoins *)

Root == "R"

\* findWithJoins up to the SELECT list: the joins, then the deferred
\* sqlExpression columns
FindPlan(e) ==
  One({[joined EXCEPT !.selectColumns =
          @ \o DeferredColumnsFrom(e, joined.validJoins, 1)] :
         joined \in {PlanJoins(e, relationsToJoin(e))}})

\* countWithJoins: one LEFT JOIN per relation of relationsToJoin, none for
\* the relations nested in them
RECURSIVE CountJoinsFrom(_, _, _)
CountJoinsFrom(e, rels, st) ==
  IF Len(rels) = 0 THEN st
  ELSE LET relation == rels[1]
           relatedEntity == relation.relatedEntity
           byOption == FieldByKey(e, relation.optField)
           fkFieldMeta ==
             IF relation.fkField # NoField THEN relation.fkField
             ELSE IF byOption # NoField THEN byOption
             ELSE FieldByKey(e, ConventionFk(relation.fieldKey))
           fkFieldDbName ==
             IF fkFieldMeta # NoField THEN getFieldDbName(fkFieldMeta)
             ELSE relation.optField
           idKey == Entity(relatedEntity).idKey
           joinAlias == <<"join", U>> \o relation.fieldKey
           joined ==
             [st EXCEPT
                !.validJoins = Append(@,
                  [fieldKey |-> relation.fieldKey,
                   relatedEntity |-> relatedEntity, joinAlias |-> joinAlias]),
                !.joins = Append(@,
                  [alias |-> joinAlias, table |-> relatedEntity,
                   parentAlias |-> mainTableAlias, fkCol |-> fkFieldDbName,
                   idCol |-> getFieldDbName(FieldByKey(relatedEntity, idKey))])]
       IN One({CountJoinsFrom(e, Tail(rels), next) :
                 next \in {IF relatedEntity = NoEntity \/ idKey = NoKey
                            THEN st ELSE joined}})

CountPlan(e) ==
  One({CountJoinsFrom(e, rels, EmptyPlan) : rels \in {relationsToJoin(e)}})

FindStatement(e, p, conds) ==
  Statement(mainTableAlias, e, p.joins, p.selectColumns, conds)

CountStatement(e, p, conds) ==
  Statement(mainTableAlias, e, p.joins, <<>>, conds)

\* an unresolved '@JOIN:' token is part of the statement
IsToken(expr) == expr.k = "malformed" /\ expr.what = "token"

RECURSIVE CondsHaveToken(_)
CondsHaveToken(conds) ==
  \E i \in 1..Len(conds) :
    CASE conds[i].k = "cmp" -> IsToken(conds[i].expr)
      [] conds[i].k = "anyOf" ->
           \E a \in 1..Len(conds[i].alts) : CondsHaveToken(conds[i].alts[a])
      [] conds[i].k = "noneOf" -> CondsHaveToken(conds[i].conds)

HasToken(q) ==
  \/ \E i \in 1..Len(q.selectColumns) : IsToken(q.selectColumns[i].expr)
  \/ CondsHaveToken(q.conds)

-----------------------------------------------------------------------------
(* Outcomes of an invocation *)

Pending == [status |-> "pending", rows |-> <<>>, count |-> 0, error |-> ""]
Returned(objects) ==
  [status |-> "rows", rows |-> objects, count |-> 0, error |-> ""]
Counted(n) == [status |-> "count", rows |-> <<>>, count |-> n, error |-> ""]
Thrown(what) ==
  [status |-> "error", rows |-> <<>>, count |-> 0, error |-> what]

\* the base provider loads the rows of its statement
BaseLoad(e, raw) ==
  IF ConversionFails(e, raw, <<>>) THEN Thrown("conversion")
  ELSE Returned(mapJoinedResults(e, raw, <<>>))

\* baseEntityProvider.find(options): q is the statement it builds
BaseFind(e, q) ==
  IF ~StatementValid(q) THEN Thrown("statement")
  ELSE BaseLoad(e, Execute(q))

\* baseEntityProvider.count(where): q is the statement it builds
BaseCount(e, q) ==
  IF ~StatementValid(q) THEN Thrown("statement")
  ELSE Counted(Len(Execute(q)))


-----------------------------------------------------------------------------
(* Inputs *)

NRows == 2


\* how the entities may be declared
Configs ==
  {c \in [fkStyle : {"info", "option", "convention"},
          aInclude : {NoInclude, Include(<<Item(K("name"))>>)},
          multiHop : BOOLEAN, aHasId : BOOLEAN,
          aNameKey : BOOLEAN, bNameKey : BOOLEAN] :
     /\ c.aInclude.has => (~c.multiHop /\ c.aHasId /\ ~c.aNameKey)
     /\ ~c.aHasId => c.aNameKey
     /\ ~c.multiHop => ~c.bNameKey
     /\ ~c.aNameKey => ~c.multiHop}

RRow(id, aid) ==
  [c \in {K("id"), K("AID")} |-> IF c = K("id") THEN id ELSE aid]
ARow(id, name, bid) ==
  [c \in {K("id"), K("NAME"), K("BID")} |->
     IF c = K("id") THEN id ELSE IF c = K("NAME") THEN name ELSE bid]
BRow(id, name) ==
  [c \in {K("id"), K("NAME")} |-> IF c = K("id") THEN id ELSE name]

\* stored rows: foreign keys that match, dangle ("9") or are NULL
Databases ==
  {[R |-> [i \in 1..NRows |-> RRow(Ids[i], aid[i])],
    A |-> <<ARow("1", "NYC", "1"), ARow("2", second[1], second[2])>>,
    B |-> <<BRow("1", "X")>>] :
     aid \in [1..NRows -> {Null, "1", "2", "9"}],
     second \in {<<"LA", Null>>, <<"LA", "9">>, <<Bad, Null>>}}

\* the filters a request may carry
Filters ==
  {All, Eq(K("aName"), "NYC"), Eq(FkKeyOfA, "2"),
   Or(<<Eq(K("aName"), "NYC"), Eq(FkKeyOfA, "9")>>)}
    \cup (IF cfg.multiHop
          THEN {Eq(K("bName"), "X"),
                Or(<<Eq(K("aName"), "LA"), Eq(K("bName"), "X")>>)}
          ELSE {})

\* what an invocation went through: how often the join statement and the
\* base provider ran, what failed, which definitions the base provider saw
NoTrace ==
  [joinRuns |-> 0, joinFailed |-> FALSE, failedKey |-> NoKey,
   degradeRuns |-> 0, baseRuns |-> 0, visible |-> <<>>, tokenSent |-> FALSE]

\* limit 0 and page 0 stand for an option that is not given; without
\* orderBy the unique sort (the id, ascending) is used
NoRequest ==
  [op |-> "none", filter |-> All, include |-> FALSE, limit |-> 0,
   page |-> 0, descending |-> FALSE]

\* what the caller keeps of its latest find to compare a count with
NoSeen == [has |-> FALSE, filter |-> All, status |-> "pending", n |-> 0]
Seen(f, outcome) ==
  [has |-> TRUE, filter |-> f, status |-> outcome.status,
   n |-> Len(outcome.rows)]

\* the sqlExpression found on the options of the virtual field: the
\* declared one, or the closure installed by the cleanJoinReferences of
\* invocation i; originalValues of an invocation holds what it saved
NoSaved == [has |-> FALSE, by |-> 0]
TheOriginal == [has |-> TRUE, by |-> 0]
Override(i) == [has |-> TRUE, by |-> i]
Idle ==
  [op |-> "none", at |-> "idle", originalValues |-> NoSaved,
   readOverrideOf |-> 0, outcome |-> "pending"]

InitFind ==
  /\ cfg \in Configs
  /\ meta = MetadataOf(cfg)
  /\ db \in Databases
  /\ req = NoRequest
  /\ pc = "idle"
  /\ defs = OriginalDefs(Root)
  /\ plan = EmptyPlan
  /\ where = <<>>
  /\ rows = <<>>
  /\ result = Pending
  /\ trace = NoTrace
  /\ seen = NoSeen
  /\ promise = FALSE
  /\ sqlExpression = TheOriginal
  /\ inv = <<>>


-----------------------------------------------------------------------------
(* find *)

\* find(options) up to the choice of the path: with no relation to join the
\* call is delegated at once, after degrading when a field carries a token
Find(f, include) ==
  /\ pc = "idle"
  /\ ~PlanningThrows(Root)
  /\ req' = [NoRequest EXCEPT !.op = "find", !.filter = f,
                             !.include = include]
  /\ pc' = IF Len(relationsToJoin(Root)) = 0
           THEN (IF VirtualKeys(Root) # {} THEN "degrade" ELSE "delegate")
           ELSE "plan"
  /\ seen' = NoSeen
  /\ UNCHANGED <<cfg, meta, db, defs, plan, where, rows, result, trace>>
  /\ UNCHANGED concVars

\* findWithJoins: main columns, processRelation per relation, deferred
\* columns
PlanAndProject ==
  /\ pc = "plan"
  /\ plan' = FindPlan(Root)
  /\ pc' = "predicate"
  /\ UNCHANGED <<cfg, meta, db, req, defs, where, rows, result, trace, seen>>
  /\ UNCHANGED concVars

\* findWithJoins: options.where through the filter bridge; an error of the
\* bridge is caught and logged, and no condition is added
Predicate ==
  /\ pc = "predicate"
  /\ where' = IF TranslateThrows(req.filter) THEN <<>>
              ELSE Translate(Root, plan.validJoins, req.filter)
  /\ pc' = "execute"
  /\ UNCHANGED <<cfg, meta, db, req, defs, plan, rows, result, trace, seen>>
  /\ UNCHANGED concVars

\* await query: the engine returns the rows
ExecuteJoin ==
  /\ pc = "execute"
  /\ \E q \in {FindStatement(Root, plan, where)} :
       /\ StatementValid(q)
       /\ rows' = ExecutePaged(q, req.descending, req.limit, req.page)
  /\ trace' = [trace EXCEPT !.joinRuns = @ + 1]
  /\ pc' = "assemble"
  /\ UNCHANGED <<cfg, meta, db, req, defs, plan, where, result, seen>>
  /\ UNCHANGED concVars

\* await query: the engine rejects the statement, find catches the error
ExecuteJoinFails ==
  /\ pc = "execute"
  /\ \E q \in {FindStatement(Root, plan, where)} :
       /\ ~StatementValid(q)
       /\ trace' = [trace EXCEPT !.joinRuns = @ + 1, !.joinFailed = TRUE,
                      !.tokenSent = HasToken(q)]
  /\ pc' = "degrade"
  /\ UNCHANGED <<cfg, meta, db, req, defs, plan, where, rows, result, seen>>
  /\ UNCHANGED concVars

\* mapJoinedResults returns the objects and find returns them
Assemble ==
  /\ pc = "assemble"
  /\ ~ConversionFails(Root, rows, plan.validJoins)
  /\ result' = Returned(mapJoinedResults(Root, rows, plan.validJoins))
  /\ pc' = "done"
  /\ UNCHANGED <<cfg, meta, db, req, defs, plan, where, rows, trace, seen>>
  /\ UNCHANGED concVars

\* mapJoinedResults throws 'Failed to load from db' inside the try of find
AssembleFails ==
  /\ pc = "assemble"
  /\ \E i \in 1..Len(rows) :
       /\ FailingKey(Root, rows[i], plan.validJoins) # NoKey
       /\ \A j \in 1..(i - 1) :
            FailingKey(Root, rows[j], plan.validJoins) = NoKey
       /\ trace' = [trace EXCEPT !.failedKey =
                      FailingKey(Root, rows[i], plan.validJoins)]
  /\ pc' = "degrade"
  /\ UNCHANGED <<cfg, meta, db, req, defs, plan, where, rows, result, seen>>
  /\ UNCHANGED concVars

\* the catch of find: cleanJoinReferences installs the overrides
Degrade ==
  /\ pc = "degrade"
  /\ defs' = cleanJoinReferences(Root)
  /\ trace' = [trace EXCEPT !.degradeRuns = @ + 1]
  /\ pc' = "delegate"
  /\ UNCHANGED <<cfg, meta, db, req, plan, where, rows, result, seen>>
  /\ UNCHANGED concVars

\* baseEntityProvider.find(options), then the finally block restoring the
\* definitions
Delegate ==
  /\ pc = "delegate"
  /\ req.op = "find"
  /\ \E q \in {BaseFindStatement(Root, defs, req.filter)} :
       /\ result' = BaseFind(Root, q)
       /\ trace' = [trace EXCEPT !.baseRuns = @ + 1, !.visible = defs,
                      !.tokenSent = @ \/ HasToken(q)]
  /\ defs' = OriginalDefs(Root)
  /\ pc' = "done"
  /\ UNCHANGED <<cfg, meta, db, req, plan, where, rows, seen>>
  /\ UNCHANGED concVars

-----------------------------------------------------------------------------
(* count *)

\* count(where) up to the statement of countWithJoins
Count(f) ==
  /\ pc = "idle"
  /\ ~PlanningThrows(Root)
  /\ req' = [NoRequest EXCEPT !.op = "count", !.filter = f]
  /\ IF Len(relationsToJoin(Root)) = 0
     THEN /\ pc' = "delegate"
          /\ UNCHANGED <<plan, where>>
     ELSE /\ \E p \in {CountPlan(Root)} :
               /\ plan' = p
               /\ where' = IF TranslateThrows(f) THEN <<>>
                           ELSE Translate(Root, p.validJoins, f)
          /\ pc' = "count"
  /\ seen' = IF seen.has /\ seen.filter = f THEN seen ELSE NoSeen
  /\ UNCHANGED <<cfg, meta, db, defs, rows, result, trace>>
  /\ UNCHANGED concVars

\* await query: the count of the join statement
ExecuteCount ==
  /\ pc = "count"
  /\ \E q \in {CountStatement(Root, plan, where)} :
       /\ StatementValid(q)
       /\ result' = Counted(Len(Execute(q)))
  /\ trace' = [trace EXCEPT !.joinRuns = @ + 1]
  /\ pc' = "done"
  /\ UNCHANGED <<cfg, meta, db, req, defs, plan, where, rows, seen>>
  /\ UNCHANGED concVars

\* await query fails: count catches the error
ExecuteCountFails ==
  /\ pc = "count"
  /\ \E q \in {CountStatement(Root, plan, where)} :
       /\ ~StatementValid(q)
       /\ trace' = [trace EXCEPT !.joinRuns = @ + 1, !.joinFailed = TRUE,
                      !.tokenSent = HasToken(q)]
  /\ pc' = "delegate"
  /\ UNCHANGED <<cfg, meta, db, req, defs, plan, where, rows, result, seen>>
  /\ UNCHANGED concVars

\* return this.baseEntityProvider.count(where)
DelegateCount ==
  /\ pc = "delegate"
  /\ req.op = "count"
  /\ \E q \in {BaseCountStatement(Root, defs, req.filter)} :
       /\ result' = BaseCount(Root, q)
       /\ trace' = [trace EXCEPT !.baseRuns = @ + 1, !.visible = defs,
                      !.tokenSent = @ \/ HasToken(q)]
  /\ pc' = "done"
  /\ UNCHANGED <<cfg, meta, db, req, defs, plan, where, rows, seen>>
  /\ UNCHANGED concVars

\* the caller has the outcome; the provider is ready for the next call
Return ==
  /\ pc = "done"
  /\ seen' = IF req.op = "find" THEN Seen(req.filter, result) ELSE NoSeen
  /\ req' = NoRequest
  /\ pc' = "idle"
  /\ plan' = EmptyPlan
  /\ where' = <<>>
  /\ rows' = <<>>
  /\ result' = Pending
  /\ trace' = NoTrace
  /\ UNCHANGED <<cfg, meta, db, defs>>
  /\ UNCHANGED concVars

NextFind ==
  \/ \E f \in Filters, include \in BOOLEAN : Find(f, include)
  \/ PlanAndProject
  \/ Predicate
  \/ ExecuteJoin
  \/ ExecuteJoinFails
  \/ Assemble
  \/ AssembleFails
  \/ Degrade
  \/ Delegate
  \/ \E f \in Filters : Count(f)
  \/ ExecuteCount
  \/ ExecuteCountFails
  \/ DelegateCount
  \/ Return

SpecFind == InitFind /\ [][NextFind]_vars

-----------------------------------------------------------------------------
(* Overlapping invocations on one entity.  The provider of an entity is    *)
(* shared by its callers and every await lets another invocation run; the   *)
(* field options holding sqlExpression are shared as well.  The entity has  *)
(* one to-one relation and one virtual field whose template is a token.    *)

NInv == 2

Invocations == 1..NInv

Operations == {"find", "count", "insert", "update", "delete"}

\* the definition invocation i gets when it evaluates
\* fieldOptions.sqlExpression: the closure of another invocation is noted
ReadBy(i) ==
  IF sqlExpression.by \notin {0, i} THEN sqlExpression.by
  ELSE inv[i].readOverrideOf

\* restoreOriginalSqlExpressions(originalValues)
restoreOriginalSqlExpressions(originalValues) ==
  IF originalValues.has THEN originalValues ELSE sqlExpression

InitConc ==
  /\ cfg = [fkStyle |-> "info", aInclude |-> NoInclude, multiHop |-> FALSE,
            aHasId |-> TRUE, aNameKey |-> TRUE, bNameKey |-> FALSE]
  /\ meta = MetadataOf(cfg)
  /\ db = [R |-> <<RRow("1", "1"), RRow("2", Null)>>,
           A |-> <<ARow("1", "NYC", "1"), ARow("2", "LA", Null)>>,
           B |-> <<BRow("1", "X")>>]
  /\ req = NoRequest
  /\ pc = "idle"
  /\ defs = OriginalDefs(Root)
  /\ plan = EmptyPlan
  /\ where = <<>>
  /\ rows = <<>>
  /\ result = Pending
  /\ trace = NoTrace
  /\ seen = NoSeen
  /\ promise \in BOOLEAN
  /\ sqlExpression = TheOriginal
  /\ inv = [i \in Invocations |-> Idle]

\* a caller invokes an operation: find and count plan their joins, the
\* write operations go to cleanJoinReferences at once
Call(i, op) ==
  /\ inv[i].at = "idle"
  /\ inv' = [inv EXCEPT ![i] =
               [Idle EXCEPT !.op = op,
                            !.at = IF op \in {"find", "count"}
                                   THEN "plan" ELSE "clean"]]
  /\ UNCHANGED <<promise, sqlExpression>>
  /\ UNCHANGED findVars

\* findWithJoins evaluates fieldOptions.sqlExpression of the deferred field
ProjectDeferred(i) ==
  /\ inv[i].at = "plan"
  /\ inv[i].op = "find"
  /\ inv' = [inv EXCEPT ![i].readOverrideOf = ReadBy(i), ![i].at = "join"]
  /\ UNCHANGED <<promise, sqlExpression>>
  /\ UNCHANGED findVars

\* countWithJoins: the filter bridge evaluates fieldOptions.sqlExpression of
\* the filtered field
TranslateCountFilter(i) ==
  /\ inv[i].at = "plan"
  /\ inv[i].op = "count"
  /\ inv' = [inv EXCEPT ![i].readOverrideOf = ReadBy(i), ![i].at = "join"]
  /\ UNCHANGED <<promise, sqlExpression>>
  /\ UNCHANGED findVars

\* await query: the join statement returns and so does the invocation
JoinReturns(i) ==
  /\ inv[i].at = "join"
  /\ inv' = [inv EXCEPT ![i].outcome = "ok", ![i].at = "done"]
  /\ UNCHANGED <<promise, sqlExpression>>
  /\ UNCHANGED findVars

\* await query: the join statement fails; find catches and goes to
\* cleanJoinReferences, count catches and goes to the base provider
JoinThrows(i) ==
  /\ inv[i].at = "join"
  /\ inv' = [inv EXCEPT ![i].at = IF inv[i].op = "find" THEN "clean"
                                  ELSE "base"]
  /\ UNCHANGED <<promise, sqlExpression>>
  /\ UNCHANGED findVars

\* cleanJoinReferences when the installed sqlExpression returns a string:
\* it runs to its end without an await.  A token is saved and overridden;
\* the text of an installed override holds no token and nothing is saved
CleanSync(i) ==
  /\ inv[i].at = "clean"
  /\ ~promise \/ sqlExpression # TheOriginal
  /\ IF sqlExpression = TheOriginal
     THEN /\ inv' = [inv EXCEPT ![i].originalValues = sqlExpression,
                                ![i].at = "base"]
          /\ sqlExpression' = Override(i)
     ELSE /\ inv' = [inv EXCEPT ![i].readOverrideOf = ReadBy(i),
                                ![i].at = "base"]
          /\ UNCHANGED sqlExpression
  /\ UNCHANGED promise
  /\ UNCHANGED findVars

\* cleanJoinReferences when the declared sqlExpression returns a Promise:
\* sqlExpr = await sqlExpr
CleanAwait(i) ==
  /\ inv[i].at = "clean"
  /\ promise /\ sqlExpression = TheOriginal
  /\ inv' = [inv EXCEPT ![i].at = "cleaning"]
  /\ UNCHANGED <<promise, sqlExpression>>
  /\ UNCHANGED findVars

\* cleanJoinReferences after the await: the token is there, the
\* sqlExpression found on the options now is saved and the override installed
CleanResume(i) ==
  /\ inv[i].at = "cleaning"
  /\ inv' = [inv EXCEPT ![i].originalValues = sqlExpression,
                        ![i].at = "base"]
  /\ sqlExpression' = Override(i)
  /\ UNCHANGED promise
  /\ UNCHANGED findVars

\* the base provider builds its statement from the installed sqlExpression
BaseCall(i) ==
  /\ inv[i].at = "base"
  /\ inv' = [inv EXCEPT ![i].readOverrideOf = ReadBy(i),
                        ![i].at = "awaiting"]
  /\ UNCHANGED <<promise, sqlExpression>>
  /\ UNCHANGED findVars

\* the delegated call returns; finally restoreOriginalSqlExpressions
BaseReturns(i) ==
  /\ inv[i].at = "awaiting"
  /\ sqlExpression' = restoreOriginalSqlExpressions(inv[i].originalValues)
  /\ inv' = [inv EXCEPT ![i].outcome = "ok", ![i].at = "done"]
  /\ UNCHANGED promise
  /\ UNCHANGED findVars

\* the delegated call throws; finally restoreOriginalSqlExpressions
BaseThrows(i) ==
  /\ inv[i].at = "awaiting"
  /\ sqlExpression' = restoreOriginalSqlExpressions(inv[i].originalValues)
  /\ inv' = [inv EXCEPT ![i].outcome = "error", ![i].at = "done"]
  /\ UNCHANGED promise
  /\ UNCHANGED findVars

\* the caller has the outcome
Finish(i) ==
  /\ inv[i].at = "done"
  /\ inv' = [inv EXCEPT ![i] = Idle]
  /\ UNCHANGED <<promise, sqlExpression>>
  /\ UNCHANGED findVars

NextConc ==
  \/ \E i \in Invocations, op \in Operations : Call(i, op)
  \/ \E i \in Invocations : ProjectDeferred(i)
  \/ \E i \in Invocations : TranslateCountFilter(i)
  \/ \E i \in Invocations : JoinReturns(i)
  \/ \E i \in Invocations : JoinThrows(i)
  \/ \E i \in Invocations : CleanSync(i)
  \/ \E i \in Invocations : CleanAwait(i)
  \/ \E i \in Invocations : CleanResume(i)
  \/ \E i \in Invocations : BaseCall(i)
  \/ \E i \in Invocations : BaseReturns(i)
  \/ \E i \in Invocations : BaseThrows(i)
  \/ \E i \in Invocations : Finish(i)

SpecConc == InitConc /\ [][NextConc]_vars

-----------------------------------------------------------------------------
(* Properties of find and count *)

\* the stored root row with the given id
StoredRow(id) ==
  db[Root][Min({i \in 1..Len(db[Root]) : db[Root][i][K("id")] = id})]

\* the stored rows the joins of the plan reach from the root row of a
\* returned object: the root row, then one row per join in plan order
JoinedRowsOf(o) ==
  BindJoins(<<Bound(mainTableAlias, Root, StoredRow(o[K("id")].v))>>,
            plan.joins)

\* join j of the plan has a matching stored row for that object
Matched(o, j) == JoinedRowsOf(o)[j + 1].row[plan.joins[j].idCol] # Null

\* what an object holds at the position of a relation; below an absent
\* relation nothing is held
RECURSIVE PositionOf(_, _)
PositionOf(o, parts) ==
  IF parts[1] \notin DOMAIN o THEN JsNull
  ELSE IF Len(parts) = 1 THEN o[parts[1]]
  ELSE IF o[parts[1]].t = "obj" THEN PositionOf(o[parts[1]].o, Tail(parts))
  ELSE JsNull

\* find has returned the objects assembled from the join statement
JoinPathFind ==
  pc = "done" /\ req.op = "find" /\ result.status = "rows"
    /\ trace.baseRuns = 0

\* C1: in every object returned by a join-path find, a relation of the plan
\* (at any depth) whose foreign key matches no stored row is null: never an
\* object, and never a container created for a deeper relation.
C1_AbsentRelationIsNull ==
  JoinPathFind =>
    \A i \in 1..Len(result.rows) : \A j \in 1..Len(plan.validJoins) :
      ~Matched(result.rows[i].o, j) =>
        PositionOf(result.rows[i].o, SplitU(plan.validJoins[j].fieldKey))
          = JsNull

\* C2: in every object returned by a join-path find, a relation of the plan
\* (at any depth) whose foreign key matches a stored row is an object, and
\* the field values it carries are those of exactly that row.
C2_MatchedRelationIsLoaded ==
  JoinPathFind =>
    \A i \in 1..Len(result.rows) : \A j \in 1..Len(plan.validJoins) :
      Matched(result.rows[i].o, j) =>
        \A at \in {PositionOf(result.rows[i].o,
                              SplitU(plan.validJoins[j].fieldKey))} :
          /\ at.t = "obj"
          /\ \A k \in DOMAIN at.o :
               \A f \in {FieldByKey(plan.validJoins[j].relatedEntity, k)} :
                 (f # NoField /\ f.rel = NoEntity /\ f.expr = <<>>) =>
                   at.o[k] = fromDb(JoinedRowsOf(result.rows[i].o)[j + 1]
                                      .row[getFieldDbName(f)])

\* the request filters by one single-hop virtual field
SingleHopFilter ==
  req.op = "find" /\ req.filter.k = "eq"
    /\ Len(FieldByKey(Root, req.filter.field).expr) = 2

\* the translated filter compares a column of a join alias
InJoinMode ==
  \E c \in 1..Len(where) :
    where[c].k = "cmp" /\ where[c].expr.k = "col"
      /\ where[c].expr.alias # mainTableAlias

\* the ids of the root rows whose related row holds val in the column NAME
RootIdsWhereRelated(val) ==
  {db[Root][i][K("id")] :
     i \in {r \in 1..Len(db[Root]) :
              \E a \in 1..Len(db["A"]) :
                /\ db["A"][a][K("id")] = db[Root][r][K("AID")]
                /\ db["A"][a][K("NAME")] = val}}

\* C3: a filter on a single-hop virtual field that is resolved in subquery
\* mode returns the root rows JOIN mode returns (those whose related row
\* holds the value), and the field is resolved in subquery mode whenever
\* the request does not ask for the relation.
C3_SubqueryModeSameRows ==
  /\ (pc = "assemble" /\ SingleHopFilter /\ ~InJoinMode) =>
       {rows[i][K("id")] : i \in 1..Len(rows)}
         = RootIdsWhereRelated(req.filter.val)
  /\ (pc = "execute" /\ SingleHopFilter /\ ~req.include) => ~InJoinMode

C5_OneJoinOneFallback ==
  /\ trace.joinRuns <= 1 /\ trace.degradeRuns <= 1 /\ trace.baseRuns <= 1
  /\ (pc = "done" /\ trace.joinFailed) =>
       (trace.degradeRuns = 1 /\ trace.baseRuns = 1)
  /\ (pc = "done" /\ trace.baseRuns = 1 /\ trace.tokenSent) =>
       result.status = "error"

\* C8: during a delegated call every definition the base provider sees is
\* in degraded form, and no statement handed to the engine carries an
\* unresolved '@JOIN:' token.
C8_NoTokenLeavesTheLayer ==
  /\ trace.baseRuns > 0 =>
       \A key \in DOMAIN trace.visible : trace.visible[key] = Degraded
  /\ ~trace.tokenSent

\* C9: the count of a filter equals the number of rows find returned for
\* the same filter over the same stored rows.
C9_CountEqualsFind ==
  (pc = "done" /\ req.op = "count" /\ seen.has /\ seen.status = "rows") =>
    (result.status = "count" /\ result.count = seen.n)

\* C10: a conversion failure of the assembler reaches the caller as the
\* error of that conversion without any degrade or delegation, and the
\* fallback is entered only from a failed join statement.
C10_ConversionFailureIsFatal ==
  /\ trace.failedKey # NoKey =>
       (trace.degradeRuns = 0 /\ trace.baseRuns = 0)
  /\ (pc = "done" /\ trace.failedKey # NoKey) =>
       (result.status = "error" /\ result.error = "conversion")
  /\ (trace.joinRuns > 0 /\ trace.degradeRuns > 0) => trace.joinFailed

-----------------------------------------------------------------------------
(* Properties of overlapping invocations *)

\* C6: whenever no invocation on the entity is in flight, the sqlExpression
\* on the shared field options is the declared one, after any interleaving
\* of overlapping invocations and whether the delegated call returned or
\* threw.
C6_DegradedDefinitionsAreTransient ==
  (\A i \in Invocations : inv[i].at \in {"idle", "done"}) =>
    sqlExpression = TheOriginal

\* C7: under every interleaving no invocation evaluates a sqlExpression
\* that another invocation installed.
C7_InvocationsAreIndependent ==
  \A i \in Invocations : inv[i].readOverrideOf = 0

-----------------------------------------------------------------------------
(* Nested filters: one find per behaviour, over requests whose filter      *)
(* nests OR, AND and NOT                                                   *)

\* the leaves, the empty filter among them
FilterLeaves == {All, Eq(K("aName"), "NYC"), Eq(FkKeyOfA, "2")}

\* one connective over leaves
FlatFilters ==
  {Or(<<x, y>>) : x, y \in FilterLeaves}
    \cup {And(<<x, y>>) : x, y \in FilterLeaves}
    \cup {Not(x) : x \in FilterLeaves}

\* a connective inside an OR, an AND or a NOT
NestedFilters ==
  FlatFilters
    \cup {Or(<<Eq(K("aName"), "LA"), g>>) : g \in FlatFilters}
    \cup {And(<<Eq(K("aName"), "LA"), g>>) : g \in FlatFilters}
    \cup {Not(g) : g \in FlatFilters}

InitFilter ==
  /\ cfg = [fkStyle |-> "info", aInclude |-> NoInclude, multiHop |-> FALSE,
            aHasId |-> TRUE, aNameKey |-> TRUE, bNameKey |-> FALSE]
  /\ meta = MetadataOf(cfg)
  /\ db \in {d \in Databases : d.A[2] = ARow("2", "LA", Null)}
  /\ req = NoRequest
  /\ pc = "idle"
  /\ defs = OriginalDefs(Root)
  /\ plan = EmptyPlan
  /\ where = <<>>
  /\ rows = <<>>
  /\ result = Pending
  /\ trace = NoTrace
  /\ seen = NoSeen
  /\ promise = FALSE
  /\ sqlExpression = TheOriginal
  /\ inv = <<>>

NextFilter ==
  \/ \E f \in NestedFilters : Find(f, FALSE)
  \/ PlanAndProject
  \/ Predicate
  \/ ExecuteJoin
  \/ Assemble

SpecFilter == InitFilter /\ [][NextFilter]_vars

\* the ids of the root rows the join statement returns for a filter
IdsSelectedBy(f) ==
  One({{selected[i][K("id")] : i \in 1..Len(selected)} :
         selected \in {Execute(FindStatement(Root, plan,
                          Translate(Root, plan.validJoins, f)))}})

AllRootIds == {db[Root][i][K("id")] : i \in 1..Len(db[Root])}

\* the filter translates to zero predicates
Unconstrained(f) == Len(Translate(Root, plan.validJoins, f)) = 0

\* the rows the identities give a filter: an OR with an unconstrained
\* branch and a NOT of an unconstrained operand restrict nothing, any other
\* OR is the union of its branches, an AND the rows common to its items
RECURSIVE RowsByIdentities(_)
RowsByIdentities(f) ==
  CASE f.k = "all" -> AllRootIds
    [] f.k = "eq" -> IdsSelectedBy(f)
    [] f.k = "or" ->
         IF \E i \in 1..Len(f.items) : Unconstrained(f.items[i])
         THEN AllRootIds
         ELSE UNION {RowsByIdentities(f.items[i]) : i \in 1..Len(f.items)}
    [] f.k = "and" ->
         {id \in AllRootIds :
            \A i \in 1..Len(f.items) : id \in RowsByIdentities(f.items[i])}
    [] f.k = "not" ->
         IF Unconstrained(f.item) THEN AllRootIds ELSE IdsSelectedBy(f)

\* C11: the rows a find returns for a nested filter are those the OR/NOT
\* identities give: an OR with a branch of zero predicates and a NOT of an
\* operand of zero predicates restrict nothing, at every depth, and an OR
\* of constrained branches selects the union of its branches.
C11_OrNotIdentities ==
  pc = "assemble" =>
    {rows[i][K("id")] : i \in 1..Len(rows)} = RowsByIdentities(req.filter)

\* an OR nested in an AND has an unconstrained branch (the empty filter)
\* next to a branch that holds for no row, and the find returns the rows
\* of the other item of the AND, one row short of all rows
C11_Witness ==
  /\ pc = "assemble"
  /\ req.filter = And(<<Eq(K("aName"), "LA"),
                        Or(<<Eq(K("aName"), "NYC"), All>>)>>)
  /\ Len(rows) = 1
  /\ Len(db[Root]) = 2

-----------------------------------------------------------------------------
(* Pagination: one find per behaviour with limit, page and sort direction, *)
(* over a table whose rows are stored in any order                         *)

MaxPageRows == 3
MaxLimit == 2
MaxPage == 3

\* the tables of 0..MaxPageRows root rows, all related to the same row
PagedDatabases ==
  UNION {{[R |-> [i \in 1..n |-> RRow(Ids[order[i]], "1")],
           A |-> <<ARow("1", "NYC", "1"), ARow("2", "LA", Null)>>,
           B |-> <<BRow("1", "X")>>] :
            order \in {p \in [1..n -> 1..n] :
                         \A i, j \in 1..n : p[i] = p[j] => i = j}} :
         n \in 0..MaxPageRows}

InitPage ==
  /\ cfg = [fkStyle |-> "info", aInclude |-> NoInclude, multiHop |-> FALSE,
            aHasId |-> TRUE, aNameKey |-> TRUE, bNameKey |-> FALSE]
  /\ meta = MetadataOf(cfg)
  /\ db \in PagedDatabases
  /\ req = NoRequest
  /\ pc = "idle"
  /\ defs = OriginalDefs(Root)
  /\ plan = EmptyPlan
  /\ where = <<>>
  /\ rows = <<>>
  /\ result = Pending
  /\ trace = NoTrace
  /\ seen = NoSeen
  /\ promise = FALSE
  /\ sqlExpression = TheOriginal
  /\ inv = <<>>

\* find({ limit, page, orderBy: { id } }) on an entity with a relation to
\* join
FindPage(limit, page, descending) ==
  /\ pc = "idle"
  /\ req' = [NoRequest EXCEPT !.op = "find", !.limit = limit,
                             !.page = page, !.descending = descending]
  /\ pc' = IF Len(relationsToJoin(Root)) = 0
           THEN (IF VirtualKeys(Root) # {} THEN "degrade" ELSE "delegate")
           ELSE "plan"
  /\ seen' = NoSeen
  /\ UNCHANGED <<cfg, meta, db, defs, plan, where, rows, result, trace>>
  /\ UNCHANGED concVars

NextPage ==
  \/ \E limit \in 1..MaxLimit, page \in 0..MaxPage, descending \in BOOLEAN :
       FindPage(limit, page, descending)
  \/ PlanAndProject
  \/ Predicate
  \/ ExecuteJoin
  \/ Assemble

SpecPage == InitPage /\ [][NextPage]_vars

\* the id at position k of the stored root rows ordered by id
RankedId(k, descending) ==
  CHOOSE id \in {db[Root][i][K("id")] : i \in 1..Len(db[Root])} :
    Cardinality({i \in 1..Len(db[Root]) :
                   IdPosition(db[Root][i][K("id")]) < IdPosition(id)})
      = (IF descending THEN Len(db[Root]) - k ELSE k - 1)

\* C12: a find with limit L >= 1 and page P >= 1 over N ordered rows
\* returns the rows at positions (P-1)*L+1 .. min(P*L, N) of that order: an
\* empty sequence past the end, the remainder on the last partial page, and
\* it returns them as rows, not as an error.
C12_PageIsItsSliceOfTheOrder ==
  (pc \in {"assemble", "done"} /\ req.limit >= 1 /\ req.page >= 1) =>
    \A first \in {(req.page - 1) * req.limit + 1} :
      \A last \in {Min({req.page * req.limit, Len(db[Root])})} :
        /\ Len(rows) = (IF first > last THEN 0 ELSE last - first + 1)
        /\ \A i \in 1..Len(rows) :
             rows[i][K("id")] = RankedId(first + i - 1, req.descending)
        /\ pc = "done" =>
             /\ result.status = "rows"
             /\ Len(result.rows) = Len(rows)
             /\ \A i \in 1..Len(rows) :
                  result.rows[i].o[K("id")] = fromDb(rows[i][K("id")])

\* the last partial page: page 2 of three rows stored out of order, two
\* per page, ascending, returned the one remaining row
C12_Witness ==
  /\ pc = "done"
  /\ Len(db[Root]) = 3 /\ db[Root][1][K("id")] = "3"
  /\ req.limit = 2 /\ req.page = 2 /\ ~req.descending
  /\ Len(result.rows) = 1
  /\ result.rows[1].o[K("id")] = JsVal("3")

-----------------------------------------------------------------------------
(* Join planning: the same relation path reached several ways, relations    *)
(* of one target, relation keys holding an underscore                       *)

\* a second relation of the root entity, declared after the others with its
\* foreign key by convention: none, 'a2' to A, or 'a_b' to B
ExtraRelations == {"none", "a2", "a_b"}

ExtraKey(extra) == IF extra = "a2" THEN K("a2") ELSE <<"a", U, "b">>

ExtraFields(extra) ==
  IF extra = "none" THEN <<>>
  ELSE <<PlainField(ConventionFk(ExtraKey(extra)), K("XID")),
         RelationField(ExtraKey(extra), IF extra = "a2" THEN "A" ELSE "B",
                       NoKey, NoKey, NoInclude)>>

\* the include list of relation 'a' may name relation 'b', also twice
PlanIncludes ==
  {NoInclude, Include(<<Item(K("name"))>>), Include(<<Item(K("b"))>>),
   Include(<<Item(K("b")), Item(K("b"))>>),
   Include(<<Item(K("name")), Item(K("b"))>>)}

PlanConfigs ==
  [fkStyle : {"info"}, aInclude : PlanIncludes, multiHop : BOOLEAN,
   aHasId : {TRUE}, aNameKey : {TRUE}, bNameKey : {TRUE}]

PlanMetadataOf(c, extra) ==
  [e \in EntityNames \cup {NoEntity} |->
     IF e = "R"
     THEN [MetadataOf(c)[e] EXCEPT !.fields = @ \o ExtraFields(extra)]
     ELSE MetadataOf(c)[e]]

\* stored rows: the column of the second relation exists when it is declared
PlanRow(id, aid, xid, extra) ==
  [c \in {K("id"), K("AID")}
         \cup (IF extra = "none" THEN {} ELSE {K("XID")}) |->
     IF c = K("id") THEN id ELSE IF c = K("AID") THEN aid ELSE xid]

PlanDatabases(extra) ==
  {[R |-> [i \in 1..NRows |-> PlanRow(Ids[i], aid[i], xid[i], extra)],
    A |-> <<ARow("1", "NYC", "1"), ARow("2", "LA", Null)>>,
    B |-> <<BRow("1", "X"), BRow("2", "Y")>>] :
     aid \in [1..NRows -> {Null, "1", "2"}],
     xid \in [1..NRows -> IF extra = "none" THEN {Null} ELSE {Null, "2"}]}

InitPlan ==
  /\ cfg \in PlanConfigs
  /\ \E extra \in ExtraRelations :
       /\ meta = PlanMetadataOf(cfg, extra)
       /\ db \in PlanDatabases(extra)
  /\ req = NoRequest
  /\ pc = "idle"
  /\ defs = OriginalDefs(Root)
  /\ plan = EmptyPlan
  /\ where = <<>>
  /\ rows = <<>>
  /\ result = Pending
  /\ trace = NoTrace
  /\ seen = NoSeen
  /\ promise = FALSE
  /\ sqlExpression = TheOriginal
  /\ inv = <<>>

\* one find or one count, without a filter
NextPlan ==
  \/ Find(All, FALSE)
  \/ PlanAndProject
  \/ Predicate
  \/ ExecuteJoin
  \/ Assemble
  \/ Count(All)
  \/ ExecuteCount

SpecPlan == InitPlan /\ [][NextPlan]_vars

\* the keys of the relation fields of an entity
RelationKeys(e) ==
  {Entity(e).fields[i].key :
     i \in {j \in 1..Len(Entity(e).fields) :
              Entity(e).fields[j].rel # NoEntity}}

\* the relation paths the planner of find is asked to join: the relations
\* of the root entity, every prefix of the relation path of a multi-hop
\* token, and the relations named by the include list of a root relation
PlannedPaths ==
  {<<k>> : k \in RelationKeys(Root)}
    \cup UNION {{SubSeq(detectNestedPathsInSqlExpressions(Root)[p], 1, n) :
                   n \in 1..Len(detectNestedPathsInSqlExpressions(Root)[p])} :
                p \in 1..Len(detectNestedPathsInSqlExpressions(Root))}
    \cup UNION {{<<k, FieldByKey(Root, k).include.items[i].field>> :
                   i \in {j \in 1..Len(FieldByKey(Root, k).include.items) :
                            FieldByKey(FieldByKey(Root, k).rel,
                              FieldByKey(Root, k).include.items[j].field).rel
                              # NoEntity}} :
                k \in RelationKeys(Root)}

\* `join_${path.join('_')}`
AliasOfPath(path) == <<"join", U>> \o JoinU(path)

\* the paths planned by the current request: count joins the relations of
\* the root entity only
PathsOfRequest ==
  IF req.op = "count" THEN {<<k>> : k \in RelationKeys(Root)}
  ELSE PlannedPaths

\* C13: once a request is planned, every relation path it was asked to
\* join, however many times (as a root relation, by an include list, by a
\* multi-hop token), has exactly one JoinNode and exactly one JOIN clause,
\* under the alias that is a function of the path alone.
C13_OnePathOneJoin ==
  (pc \in {"predicate", "execute", "assemble", "count", "done"}) =>
    \A path \in PathsOfRequest :
      /\ Cardinality({j \in 1..Len(plan.validJoins) :
            plan.validJoins[j].joinAlias = AliasOfPath(path)}) = 1
      /\ Cardinality({j \in 1..Len(plan.joins) :
            plan.joins[j].alias = AliasOfPath(path)}) = 1

\* path a.b asked for three times (twice by the include list of 'a', once
\* by the multi-hop token) next to two root relations: three JoinNodes
C13_Witness ==
  /\ pc = "done" /\ req.op = "find"
  /\ cfg.multiHop
  /\ cfg.aInclude = Include(<<Item(K("b")), Item(K("b"))>>)
  /\ K("a2") \in RelationKeys(Root)
  /\ Len(plan.validJoins) = 3
  /\ Len(plan.joins) = 3

\* the stored row a relation path leads to from a stored row of entity e;
\* the all-NULL row when a foreign key on the way matches nothing
RECURSIVE ReachedRow(_, _, _)
ReachedRow(e, row, path) ==
  IF Len(path) = 0 THEN row
  ELSE LET target == FieldByKey(e, path[1]).rel
           fkCol == getFieldDbName(getRelationDetails(e, path[1]).fkField)
           idCol == getFieldDbName(FieldByKey(target, Entity(target).idKey))
       IN ReachedRow(target, Lookup(target, idCol, row[fkCol]), Tail(path))

\* the entity a relation path leads to
RECURSIVE EntityAtPath(_, _)
EntityAtPath(e, path) ==
  IF Len(path) = 0 THEN e
  ELSE EntityAtPath(FieldByKey(e, path[1]).rel, Tail(path))

\* the JoinNodes that claim a column of the flat row
OwnersOf(row, key) ==
  {j \in 1..Len(plan.validJoins) : key \in JoinKeys(row, plan.validJoins[j])}

\* C14: in a find answered by the join statement, different relation paths
\* have different aliases (so each planned path has a JoinNode of its own),
\* every column of a joined relation is claimed by exactly one JoinNode and
\* a column of the root by none, and every relation that matched a stored
\* row is written at the nesting position of its path, with the values of
\* that row.
C14_AliasesNeverCollide ==
  JoinPathFind =>
    /\ \A p \in PlannedPaths : \A q \in PlannedPaths :
         p # q => AliasOfPath(p) # AliasOfPath(q)
    /\ Len(plan.validJoins) = Cardinality(PlannedPaths)
    /\ \A i \in 1..Len(rows) : \A key \in DOMAIN rows[i] :
         Cardinality(OwnersOf(rows[i], key))
           = (IF IncludesUU(key) THEN 1 ELSE 0)
    /\ \A i \in 1..Len(result.rows) : \A path \in PlannedPaths :
         \A reached \in {ReachedRow(Root,
                           StoredRow(result.rows[i].o[K("id")].v), path)} :
           reached[K("id")] # Null =>
             \A at \in {PositionOf(result.rows[i].o, path)} :
               /\ at.t = "obj"
               /\ \A k \in DOMAIN at.o :
                    \A f \in {FieldByKey(EntityAtPath(Root, path), k)} :
                      (f # NoField /\ f.rel = NoEntity /\ f.expr = <<>>) =>
                        at.o[k] = fromDb(reached[getFieldDbName(f)])

-----------------------------------------------------------------------------
(* Statement text and bound parameters *)

\* query.toSQL().sql restricted to the WHERE clause: what knex writes for
\* each condition, a placeholder standing for every value handed to it
RECURSIVE SqlTextOf(_)
SqlTextOf(conds) ==
  [i \in 1..Len(conds) |->
     CASE conds[i].k = "cmp" ->
            [k |-> "cmp", expr |-> conds[i].expr, operator |-> "=",
             placeholders |-> 1]
       [] conds[i].k = "in" ->
            [k |-> "in", expr |-> conds[i].expr,
             placeholders |-> Len(conds[i].vals)]
       [] conds[i].k = "raw" ->
            [k |-> "raw", template |-> conds[i].template,
             colName |-> conds[i].colName,
             interpolated |-> conds[i].interpolated,
             orWhere |-> conds[i].orWhere]
       [] conds[i].k = "anyOf" ->
            [k |-> "anyOf",
             alts |-> [a \in 1..Len(conds[i].alts) |->
                         SqlTextOf(conds[i].alts[a])]]
       [] conds[i].k = "noneOf" ->
            [k |-> "noneOf", conds |-> SqlTextOf(conds[i].conds)]]

\* query.toSQL().bindings of the WHERE clause, in statement order
RECURSIVE BindingsOf(_)
BindingsOf(conds) ==
  IF Len(conds) = 0 THEN <<>>
  ELSE (CASE conds[1].k = "cmp" -> <<conds[1].val>>
          [] conds[1].k = "in" -> conds[1].vals
          [] conds[1].k = "raw" -> conds[1].bindings
          [] conds[1].k = "anyOf" ->
               BindingsOf(ConcatAll(conds[1].alts))
          [] conds[1].k = "noneOf" -> BindingsOf(conds[1].conds))
         \o BindingsOf(Tail(conds))

\* operand values of the leaves: plain, with a quote, with blanks
TextValues == {<<"L", "A">>, <<"O", "'", "B">>, <<"N", " ", " ", "Y">>}

TextLeaves ==
  {Eq(K("aName"), v) : v \in TextValues}
    \cup {In(K("aName"), <<v, w>>) : v \in TextValues, w \in TextValues}
    \cup {In(K("id"), <<v>>) : v \in TextValues}
    \cup {Contains(K("aName"), v) : v \in TextValues}
    \cup {NotContains(K("aName"), v) : v \in TextValues}
    \cup {StartsWithText(K("id"), v) : v \in TextValues}
    \cup {EndsWithText(K("aName"), v) : v \in TextValues}

TextFilters ==
  TextLeaves
    \cup {Or(<<Contains(K("aName"), v), Eq(K("id"), w)>>) :
            v \in TextValues, w \in TextValues}
    \cup {Not(StartsWithText(K("aName"), v)) : v \in TextValues}

\* two filters that differ at most in the operand values of their leaves
RECURSIVE SameShape(_, _)
SameShape(f, g) ==
  /\ f.k = g.k
  /\ CASE f.k \in {"or", "and"} ->
            /\ Len(f.items) = Len(g.items)
            /\ \A i \in 1..Len(f.items) : SameShape(f.items[i], g.items[i])
       [] f.k = "not" -> SameShape(f.item, g.item)
       [] f.k = "in" -> f.field = g.field /\ Len(f.vals) = Len(g.vals)
       [] f.k = "all" -> TRUE
       [] OTHER -> f.field = g.field

\* the number of operand values of the leaves of a filter
RECURSIVE OperandsOf(_)
OperandsOf(f) ==
  CASE f.k \in {"or", "and"} ->
         IF Len(f.items) = 0 THEN 0
         ELSE OperandsOf(f.items[1])
                + OperandsOf([f EXCEPT !.items = Tail(f.items)])
    [] f.k = "not" -> OperandsOf(f.item)
    [] f.k = "in" -> Len(f.vals)
    [] f.k = "all" -> 0
    [] OTHER -> 1

InitText ==
  /\ cfg \in {c \in Configs : c.aHasId}
  /\ meta = MetadataOf(cfg)
  /\ db \in {d \in Databases :
               /\ d.A[2] = ARow("2", "LA", Null)
               /\ \A i \in 1..NRows : d.R[i][K("AID")] = "1"}
  /\ req = NoRequest
  /\ pc = "idle"
  /\ defs = OriginalDefs(Root)
  /\ plan = EmptyPlan
  /\ where = <<>>
  /\ rows = <<>>
  /\ result = Pending
  /\ trace = NoTrace
  /\ seen = NoSeen
  /\ promise = FALSE
  /\ sqlExpression = TheOriginal
  /\ inv = <<>>

\* find and count up to the statement handed to the engine
NextText ==
  \/ \E f \in TextFilters : Find(f, FALSE)
  \/ PlanAndProject
  \/ Predicate
  \/ \E f \in TextFilters : Count(f)

SpecText == InitText /\ [][NextText]_vars

\* C15: the statement of a find or a count has the text of the statement of
\* every request that differs from it only in the operand values of its
\* filter leaves (comparison, membership, text match), and every operand
\* value is among its bound parameters, none in its text.
C15_ValuesAreBoundNotWritten ==
  (pc \in {"execute", "count"}) =>
    /\ \A g \in TextFilters :
         SameShape(g, req.filter) =>
           SqlTextOf(Translate(Root, plan.validJoins, g)) = SqlTextOf(where)
    /\ Len(BindingsOf(where)) = OperandsOf(req.filter)

\* a find whose text match carries a quote and whose comparison carries
\* blanks: one statement, both values bound
C15_Witness ==
  /\ pc = "execute"
  /\ req.filter = Or(<<Contains(K("aName"), <<"O", "'", "B">>),
                       Eq(K("id"), <<"N", " ", " ", "Y">>)>>)
  /\ BindingsOf(where)
       = <<<<"%", "O", "'", "B", "%">>, <<"N", " ", " ", "Y">>>>

-----------------------------------------------------------------------------
(* SafeKnexDataProvider: the insert of an entity data provider, wrapped on  *)
(* one dialect to survive tables with triggers.  The callers of one entity  *)
(* share the table; every await lets another caller run.  Here cfg holds    *)
(* the dialect and the trigger of the table, meta the fields of the entity, *)
(* db the table and inv the callers.                                        *)

Undefined == "undefined"

\* a field of the entity: isServerExpression, options.dbReadOnly and
\* options.sqlExpression ("" when there is none)
InsertField(key, dbName, isServerExpression, dbReadOnly, expression) ==
  [key |-> key, dbName |-> dbName, isServerExpression |-> isServerExpression,
   dbReadOnly |-> dbReadOnly, sqlExpression |-> expression]

\* an auto-increment id, two stored columns (CODE is unique), a read-only
\* column, a server expression and a virtual field
TFields ==
  <<InsertField("id", "id", FALSE, TRUE, ""),
    InsertField("name", "NAME", FALSE, FALSE, ""),
    InsertField("code", "CODE", FALSE, FALSE, ""),
    InsertField("stamp", "STAMP", FALSE, TRUE, ""),
    InsertField("total", "total", TRUE, FALSE, ""),
    InsertField("aName", "aName", FALSE, FALSE, "@JOIN:a.name")>>

\* e.$dbNameOf(f): the expression of a field that has one
dbNameOf(f) == IF f.sqlExpression # "" THEN f.sqlExpression ELSE f.dbName

TableColumns == {"id", "NAME", "CODE", "STAMP"}

\* the data handed to insert: every field with a value or undefined
InsertData ==
  [id : {Undefined}, name : {"n"}, code : {"c1", "c2"},
   stamp : {"s"}, total : {"t"}, aName : {Undefined, "v"}]

\* an INSERT statement: the columns it writes with their values, and
\* whether it asks for the generated key (OUTPUT INSERTED / RETURNING)
InsertStatement(columns, values, requestsKey) ==
  [columns |-> columns, values |-> values, requestsKey |-> requestsKey]

\* toDbValue of the fields written, under the column names of $dbNameOf
StatementOf(fieldIndexes, data, requestsKey) ==
  LET fs == meta["T"].fields
      columns == {dbNameOf(fs[i]) : i \in fieldIndexes}
      fieldOf(c) == fs[CHOOSE i \in fieldIndexes : dbNameOf(fs[i]) = c]
  IN InsertStatement(columns, [c \in columns |-> data[fieldOf(c).key]],
                     requestsKey)

\* the insert of the base provider writes the fields that are not
\* read-only, no server expression and no sqlExpression, and asks for the
\* key of the auto-increment id
BaseInsertObject(data) ==
  {i \in 1..Len(meta["T"].fields) :
     LET f == meta["T"].fields[i]
     IN ~f.dbReadOnly /\ ~f.isServerExpression /\ f.sqlExpression = ""
          /\ data[f.key] # Undefined}

\* the loop building insertObject in the fallback
insertObject(data) ==
  {i \in 1..Len(meta["T"].fields) :
     LET f == meta["T"].fields[i]
     IN ~f.isServerExpression /\ ~f.dbReadOnly /\ data[f.key] # Undefined}

\* what the engine does with an INSERT: "none" when it runs
EngineError(q) ==
  IF ~(q.columns \subseteq TableColumns) THEN "column"
  ELSE IF q.requestsKey /\ cfg.dialect = "mssql" /\ cfg.trigger # "none"
  THEN "trigger"
  ELSE IF "CODE" \in q.columns
            /\ \E r \in 1..Len(db["T"]) : db["T"][r].CODE = q.values["CODE"]
  THEN "unique"
  ELSE "none"

\* the row the statement of caller 'by' stores under the next identity
InsertedRow(q, by) ==
  [id |-> Ids[Len(db["T"]) + 1],
   NAME |-> IF "NAME" \in q.columns THEN q.values["NAME"] ELSE Null,
   CODE |-> IF "CODE" \in q.columns THEN q.values["CODE"] ELSE Null,
   STAMP |-> Null, by |-> by]

\* the text of an error, in words: knex puts the statement before the
\* message of the engine
EchoOf(q) ==
  <<"insert", "into", "t">>
    \o (IF ~q.requestsKey THEN <<>>
        ELSE IF cfg.dialect = "mssql" THEN <<"output", "inserted", "id">>
        ELSE <<"returning", "id">>)
    \o <<"values">>

EngineMessage(kind) ==
  CASE kind = "trigger" ->
         <<"the", "target", "table", "t", "of", "the", "dml", "statement",
           "cannot", "have", "any", "enabled", "triggers", "if", "the",
           "statement", "contains", "an", "output", "clause", "without",
           "into", "clause">>
    [] kind = "unique" ->
         <<"violation", "of", "unique", "key", "constraint", "cannot",
           "insert", "duplicate", "key", "in", "object", "t">>
    [] kind = "column" -> <<"invalid", "column", "name">>
    [] OTHER -> <<>>

NoError == [kind |-> "none", message |-> <<>>]
ErrorOf(q) ==
  [kind |-> EngineError(q),
   message |-> EchoOf(q) \o <<"-">> \o EngineMessage(EngineError(q))]
\* new Error('Insert fallback con SCOPE_IDENTITY() no devolvió id ...')
NoIdError ==
  [kind |-> "noId",
   message |-> <<"insert", "fallback", "con", "scope_identity", "no",
                 "devolvio", "id">>]

\* the words occur next to each other in the text
HasWords(msg, words) ==
  \E i \in 1..(Len(msg) - Len(words) + 1) :
    SubSeq(msg, i, i + Len(words) - 1) = words

\* the first words occur, and the second after them
HasWordsThen(msg, first, second) ==
  \E i \in 1..(Len(msg) - Len(first) + 1) :
    /\ SubSeq(msg, i, i + Len(first) - 1) = first
    /\ HasWords(SubSeq(msg, i + Len(first), Len(msg)), second)

\* the six patterns tested on the text of the error
looksLikeTriggerOutputError(msg) ==
  \/ HasWords(msg, <<"output", "inserted">>)
  \/ HasWords(msg, <<"output", "into">>)
  \/ HasWordsThen(msg, <<"output">>, <<"without", "into", "clause">>)
  \/ HasWords(msg, <<"cannot", "use", "the", "output", "clause">>)
  \/ HasWordsThen(msg, <<"cannot", "have", "any", "enabled", "triggers">>,
                  <<"output", "clause">>)
  \/ HasWords(msg, <<"with", "an", "instead", "of", "trigger">>)

\* a test that takes every answer of the identity query for a key
NoKeyReturnedNever(newId) == FALSE

\* newId === undefined || newId === null
NoKeyReturned(newId) == newId = Null \/ newId = Undefined

\* a caller of insert: where it is, its data, the error of the base insert,
\* the INSERT statements it sent, the answer of the batch, its outcome
NoData == [id |-> Undefined]
NoRow == [id |-> Null]
NoResponse == [has |-> FALSE, id |-> Null]
NoOutcome == [status |-> "pending", row |-> NoRow, error |-> NoError]
IdleCaller ==
  [at |-> "idle", data |-> NoData, baseError |-> NoError, issued |-> <<>>,
   rawRes |-> NoResponse, outcome |-> NoOutcome]

\* edp.find({ where: id = newId }): r[0]
RowById(id) ==
  LET M == {r \in 1..Len(db["T"]) : db["T"][r].id = id}
  IN IF M = {} THEN NoRow ELSE db["T"][Min(M)]

InitInsert ==
  /\ cfg \in [dialect : {"mssql", "other"},
              trigger : {"none", "after", "insteadOf"}]
  /\ meta = [e \in {"T"} |-> [key |-> "T", fields |-> TFields]]
  /\ db \in {[T |-> <<>>],
             [T |-> <<[id |-> Ids[1], NAME |-> "n", CODE |-> "c1",
                       STAMP |-> Null, by |-> 0]>>]}
  /\ inv = [i \in Invocations |-> IdleCaller]
  /\ req = NoRequest
  /\ pc = "idle"
  /\ defs = <<>>
  /\ plan = EmptyPlan
  /\ where = <<>>
  /\ rows = <<>>
  /\ result = Pending
  /\ trace = NoTrace
  /\ seen = NoSeen
  /\ promise = FALSE
  /\ sqlExpression = TheOriginal

\* edp.insert(data)
InsertCall(i, data) ==
  /\ inv[i].at = "idle"
  /\ inv' = [inv EXCEPT ![i] = [IdleCaller EXCEPT !.at = "base",
                                                  !.data = data]]
  /\ UNCHANGED <<promise, sqlExpression>>
  /\ UNCHANGED findVars

\* origInsert(data) stores the row and returns it
BaseInsertReturns(i) ==
  /\ inv[i].at = "base"
  /\ \E q \in {StatementOf(BaseInsertObject(inv[i].data), inv[i].data,
                           TRUE)} :
       /\ EngineError(q) = "none"
       /\ \E row \in {InsertedRow(q, i)} :
            /\ db' = [db EXCEPT !["T"] = Append(@, row)]
            /\ inv' = [inv EXCEPT ![i].at = "done",
                                  ![i].issued = Append(@, q),
                                  ![i].outcome =
                                    [NoOutcome EXCEPT !.status = "row",
                                                      !.row = row]]
  /\ UNCHANGED <<promise, sqlExpression>>
  /\ UNCHANGED <<cfg, meta, req, pc, defs, plan, where, rows, result, trace,
                 seen>>

\* origInsert(data) throws and the error reaches the caller: the insert is
\* not wrapped on this dialect, or the text matches no pattern
BaseInsertThrows(i) ==
  /\ inv[i].at = "base"
  /\ \E q \in {StatementOf(BaseInsertObject(inv[i].data), inv[i].data,
                           TRUE)} :
       /\ EngineError(q) # "none"
       /\ cfg.dialect # "mssql"
            \/ ~looksLikeTriggerOutputError(ErrorOf(q).message)
       /\ inv' = [inv EXCEPT ![i].at = "done",
                             ![i].issued = Append(@, q),
                             ![i].baseError = ErrorOf(q),
                             ![i].outcome =
                               [NoOutcome EXCEPT !.status = "error",
                                                 !.error = ErrorOf(q)]]
  /\ UNCHANGED <<promise, sqlExpression>>
  /\ UNCHANGED findVars

\* origInsert(data) throws and the text matches a pattern: the fallback
\* starts with await edp.init()
BaseInsertCaught(i) ==
  /\ inv[i].at = "base"
  /\ \E q \in {StatementOf(BaseInsertObject(inv[i].data), inv[i].data,
                           TRUE)} :
       /\ EngineError(q) # "none"
       /\ cfg.dialect = "mssql"
       /\ looksLikeTriggerOutputError(ErrorOf(q).message)
       /\ inv' = [inv EXCEPT ![i].at = "fallback",
                             ![i].issued = Append(@, q),
                             ![i].baseError = ErrorOf(q)]
  /\ UNCHANGED <<promise, sqlExpression>>
  /\ UNCHANGED findVars

\* knex.raw(insert; select SCOPE_IDENTITY()): one batch.  The row is stored
\* by the statement, or by the INSTEAD OF trigger in a scope of its own
\* that leaves SCOPE_IDENTITY() NULL.  The batch answers with a key.
ReissueReturnsKey(i) ==
  /\ inv[i].at = "fallback"
  /\ \E q \in {StatementOf(insertObject(inv[i].data), inv[i].data, FALSE)} :
       /\ EngineError(q) = "none"
       /\ \E row \in {InsertedRow(q, i)} :
            \E newId \in {IF cfg.trigger = "insteadOf" THEN Null
                          ELSE row.id} :
              /\ ~NoKeyReturned(newId)
              /\ db' = [db EXCEPT !["T"] = Append(@, row)]
              /\ inv' = [inv EXCEPT ![i].at = "refetch",
                                    ![i].issued = Append(@, q),
                                    ![i].rawRes = [has |-> TRUE,
                                                   id |-> newId]]
  /\ UNCHANGED <<promise, sqlExpression>>
  /\ UNCHANGED <<cfg, meta, req, pc, defs, plan, where, rows, result, trace,
                 seen>>

\* the batch answers without a key: the fallback throws its own error
ReissueReturnsNoKey(i) ==
  /\ inv[i].at = "fallback"
  /\ \E q \in {StatementOf(insertObject(inv[i].data), inv[i].data, FALSE)} :
       /\ EngineError(q) = "none"
       /\ \E row \in {InsertedRow(q, i)} :
            \E newId \in {IF cfg.trigger = "insteadOf" THEN Null
                          ELSE row.id} :
              /\ NoKeyReturned(newId)
              /\ db' = [db EXCEPT !["T"] = Append(@, row)]
              /\ inv' = [inv EXCEPT ![i].at = "done",
                                    ![i].issued = Append(@, q),
                                    ![i].rawRes = [has |-> TRUE,
                                                   id |-> newId],
                                    ![i].outcome =
                                      [NoOutcome EXCEPT !.status = "error",
                                                        !.error = NoIdError]]
  /\ UNCHANGED <<promise, sqlExpression>>
  /\ UNCHANGED <<cfg, meta, req, pc, defs, plan, where, rows, result, trace,
                 seen>>

\* the engine rejects the batch: the error of knex.raw reaches the caller
ReissueThrows(i) ==
  /\ inv[i].at = "fallback"
  /\ \E q \in {StatementOf(insertObject(inv[i].data), inv[i].data, FALSE)} :
       /\ EngineError(q) # "none"
       /\ inv' = [inv EXCEPT ![i].at = "done",
                             ![i].issued = Append(@, q),
                             ![i].outcome =
                               [NoOutcome EXCEPT !.status = "error",
                                                 !.error = ErrorOf(q)]]
  /\ UNCHANGED <<promise, sqlExpression>>
  /\ UNCHANGED findVars

\* edp.find by the id field, return r[0]
Refetch(i) ==
  /\ inv[i].at = "refetch"
  /\ \E row \in {RowById(inv[i].rawRes.id)} :
       inv' = [inv EXCEPT ![i].at = "done",
                          ![i].outcome =
                            IF row = NoRow
                            THEN [NoOutcome EXCEPT !.status = "nothing"]
                            ELSE [NoOutcome EXCEPT !.status = "row",
                                                   !.row = row]]
  /\ UNCHANGED <<promise, sqlExpression>>
  /\ UNCHANGED findVars

NextInsert ==
  \E i \in Invocations :
    \/ \E data \in InsertData : InsertCall(i, data)
    \/ BaseInsertReturns(i)
    \/ BaseInsertThrows(i)
    \/ BaseInsertCaught(i)
    \/ ReissueReturnsKey(i)
    \/ ReissueReturnsNoKey(i)
    \/ ReissueThrows(i)
    \/ Refetch(i)

SpecInsert == InitInsert /\ [][NextInsert]_vars

\* C16: an insert whose base insert failed for another reason than the
\* trigger conflict sent that one INSERT only and ends with the error of the
\* base insert; on another dialect than the wrapped one no second INSERT is
\* ever sent and a failure is the error of the base insert.
C16_OtherFailuresPropagateUnchanged ==
  \A i \in Invocations :
    /\ (inv[i].baseError.kind \notin {"none", "trigger"}) =>
         /\ Len(inv[i].issued) = 1
         /\ inv[i].at = "done"
         /\ inv[i].outcome.status = "error"
         /\ inv[i].outcome.error = inv[i].baseError
    /\ cfg.dialect # "mssql" =>
         /\ Len(inv[i].issued) <= 1
         /\ inv[i].baseError.kind # "none" =>
              inv[i].outcome.error = inv[i].baseError

\* the columns of the writable fields present in the data: no server
\* expression, no sqlExpression, not read-only, not undefined
WritableColumns(data) ==
  {meta["T"].fields[i].dbName :
     i \in {j \in 1..Len(meta["T"].fields) :
              LET f == meta["T"].fields[j]
              IN ~f.isServerExpression /\ f.sqlExpression = ""
                   /\ ~f.dbReadOnly /\ data[f.key] # Undefined}}

\* C17: a caller whose base insert met the trigger conflict and whose
\* fallback has sent its batch sent exactly one more INSERT, which does not
\* ask for the generated key and writes only columns of writable fields
\* present in the data; the key the batch answered with is the key of the
\* row this caller stored, whatever the other callers do.
C17_ReissuedOnceWritableColumnsOwnKey ==
  \A i \in Invocations :
    (inv[i].baseError.kind = "trigger" /\ inv[i].at \in {"refetch", "done"})
      =>
        /\ Len(inv[i].issued) = 2
        /\ ~inv[i].issued[2].requestsKey
        /\ inv[i].issued[2].columns \subseteq WritableColumns(inv[i].data)
        /\ (inv[i].rawRes.has /\ inv[i].rawRes.id # Null) =>
             RowById(inv[i].rawRes.id).by = i

\* C18: once the batch of the fallback has answered, a missing key ends the
\* call with the error of the fallback itself, which is not the error of
\* the base insert, and without a row; with a key the call returns the
\* stored row whose primary key is that key.
C18_NoKeyFailsElseRefetched ==
  \A i \in Invocations :
    inv[i].rawRes.has =>
      IF inv[i].rawRes.id = Null
      THEN /\ inv[i].at = "done"
           /\ inv[i].outcome.status = "error"
           /\ inv[i].outcome.error = NoIdError
           /\ inv[i].outcome.error # inv[i].baseError
           /\ inv[i].outcome.row = NoRow
      ELSE inv[i].at = "done" =>
             /\ inv[i].outcome.status = "row"
             /\ inv[i].outcome.row.id = inv[i].rawRes.id
             /\ inv[i].outcome.row = RowById(inv[i].rawRes.id)

\* on a table with an AFTER trigger every caller went through the fallback
\* and got the row of its own key back
C18_Witness ==
  /\ cfg.trigger = "after"
  /\ \A i \in Invocations :
       /\ inv[i].at = "done" /\ inv[i].rawRes.has
       /\ inv[i].outcome.status = "row"
       /\ inv[i].outcome.row.by = i


-----------------------------------------------------------------------------
(* Expression resolution: the SQL a field stands for in SELECT, in WHERE    *)
(* and in ORDER BY, for every kind of computed field                        *)

\* one more computed field of the root entity: none, a serverExpression
\* reading a.name, a sqlExpression written by hand that names the join
\* alias of relation 'a', or a token whose target is itself a token field,
\* whose target does not exist, that has a single segment, or whose second
\* hop is no relation of the entity the first hop leads to
Shapes ==
  {"token", "auto", "raw", "virtualTarget", "missingTarget", "short",
   "brokenHop"}

ShapeField(shape) ==
  CASE shape = "auto" ->
         <<ServerComputedField(K("aLabel"), K("a"), K("name"))>>
    [] shape = "raw" ->
         <<HandWrittenField(K("aRaw"), Col(<<"join", U, "a">>, K("NAME")))>>
    [] shape = "virtualTarget" ->
         <<VirtualField(K("aBName"), <<K("a"), K("bName")>>)>>
    [] shape = "missingTarget" ->
         <<VirtualField(K("aMissing"), <<K("a"), K("missing")>>)>>
    [] shape = "short" -> <<VirtualField(K("aShort"), <<K("a")>>)>>
    [] shape = "brokenHop" ->
         <<VirtualField(K("aXName"), <<K("a"), K("x"), K("name")>>)>>
    [] OTHER -> <<>>

\* the target entity of relation 'a' declares the token field 'bName' when
\* the root entity refers to it
ResolveMetadataOf(c, shape) ==
  [e \in EntityNames \cup {NoEntity} |->
     IF e = "R"
     THEN [MetadataOf(c)[e] EXCEPT !.fields = @ \o ShapeField(shape)]
     ELSE IF e = "A" /\ shape = "virtualTarget"
     THEN [MetadataOf(c)[e] EXCEPT !.fields =
             @ \o <<VirtualField(K("bName"), <<K("b"), K("name")>>)>>]
     ELSE MetadataOf(c)[e]]

\* the computed fields of an entity that are no relations
ComputedKeys(e) ==
  {Entity(e).fields[i].key :
     i \in {j \in 1..Len(Entity(e).fields) :
              /\ Entity(e).fields[j].rel = NoEntity
              /\ \/ HasSqlExpression(Entity(e).fields[j])
                 \/ Entity(e).fields[j].server}}

\* a request filters by one computed field, by the foreign key, or not at all
ResolveFilters ==
  {All, Eq(FkKeyOfA, "1")} \cup {Eq(key, "NYC") : key \in ComputedKeys(Root)}

InitResolve ==
  /\ cfg \in {c \in Configs : ~c.aInclude.has}
  /\ \E shape \in Shapes : meta = ResolveMetadataOf(cfg, shape)
  /\ db \in {d \in Databases : d.A[2] = ARow("2", "LA", Null)}
  /\ req = NoRequest
  /\ pc = "idle"
  /\ defs = OriginalDefs(Root)
  /\ plan = EmptyPlan
  /\ where = <<>>
  /\ rows = <<>>
  /\ result = Pending
  /\ trace = NoTrace
  /\ seen = NoSeen
  /\ promise = FALSE
  /\ sqlExpression = TheOriginal
  /\ inv = <<>>

\* find and count up to the answer of the engine to the join statement
NextResolve ==
  \/ \E f \in ResolveFilters : Find(f, FALSE)
  \/ PlanAndProject
  \/ Predicate
  \/ ExecuteJoin
  \/ ExecuteJoinFails
  \/ \E f \in ResolveFilters : Count(f)
  \/ ExecuteCount
  \/ ExecuteCountFails

SpecResolve == InitResolve /\ [][NextResolve]_vars

\* findWithJoins, ORDER BY: the column of a sort key, the plain column of
\* the main table when the bridge resolves nothing
OrderByColumn(e, validJoins, field) ==
  One({IF columnName = Dropped
       THEN Col(mainTableAlias, getFieldDbName(field)) ELSE columnName :
         columnName \in
           {getColumnNameAsync(e, validJoins, mainTableAlias, field)}})

\* the aliases an SQL fragment names
AliasesOf(expr) ==
  CASE expr.k = "col" -> {expr.alias}
    [] expr.k \in {"subquery", "nested"} -> {expr.corrAlias}
    [] OTHER -> {}

RECURSIVE AliasesOfConds(_)
AliasesOfConds(conds) ==
  UNION {CASE conds[i].k = "cmp" -> AliasesOf(conds[i].expr)
           [] conds[i].k = "anyOf" ->
                UNION {AliasesOfConds(conds[i].alts[a]) :
                         a \in 1..Len(conds[i].alts)}
           [] conds[i].k = "noneOf" -> AliasesOfConds(conds[i].conds)
           [] OTHER -> {} :
         i \in 1..Len(conds)}

\* the aliases named by the SELECT list and the WHERE clause of the
\* statement of the request, and by ORDER BY whichever field sorts a find
ReferencedAliases ==
  AliasesOfConds(where)
    \cup (IF req.op = "find"
          THEN UNION {AliasesOf(plan.selectColumns[i].expr) :
                        i \in 1..Len(plan.selectColumns)}
                 \cup UNION {AliasesOf(OrderByColumn(Root, plan.validJoins,
                                         Entity(Root).fields[i])) :
                               i \in 1..Len(Entity(Root).fields)}
          ELSE {})

\* the statement of the request is built
StatementBuilt ==
  \/ req.op = "find" /\ pc \in {"execute", "assemble", "degrade"}
  \/ req.op = "count" /\ pc = "count"

\* C19: in the statement built by findWithJoins or countWithJoins, every
\* alias other than the alias of the main table that is named by a SELECT
\* projection, a WHERE predicate or an ORDER BY key is the alias of exactly
\* one JoinNode of the plan of that request and of exactly one JOIN clause
\* of the statement.
C19_NoDanglingAlias ==
  StatementBuilt =>
    \A alias \in ReferencedAliases \ {mainTableAlias} :
      /\ Cardinality({j \in 1..Len(plan.validJoins) :
            plan.validJoins[j].joinAlias = alias}) = 1
      /\ Cardinality({j \in 1..Len(plan.joins) :
            plan.joins[j].alias = alias}) = 1


\* the FROM and JOIN rows of the find statement, one binding per stored row
\* of the root entity
RowBindings ==
  {BindJoins(<<Bound(mainTableAlias, Root, db[Root][i])>>, plan.joins) :
     i \in 1..Len(db[Root])}

\* two SQL fragments denote the same value: they are the same fragment, or
\* both compile and evaluate alike on every row
DenoteTheSameValue(projected, used) ==
  \/ projected = used
  \/ \A binding \in RowBindings :
       /\ ExprValid(binding, projected)
       /\ ExprValid(binding, used)
       /\ Eval(binding, projected) = Eval(binding, used)

\* the positions of the SELECT list that project the field
ProjectionsOf(field) ==
  {i \in 1..Len(plan.selectColumns) : plan.selectColumns[i].as = field.key}

\* C20: once findWithJoins has built its SELECT list, for every field of the
\* root entity that the list projects, the fragment the filter bridge gives
\* for the field in WHERE (getColumnNameAsync) and the one it gives in
\* ORDER BY denote the same value as the projected fragment, on every
\* stored row.
C20_ProjectionFilterAndSortAgree ==
  (req.op = "find" /\ pc \in {"predicate", "execute", "assemble", "degrade"}
     /\ JoinsValid(<<Bound(mainTableAlias, Root, NullRow(Root))>>, plan.joins))
    => \A f \in 1..Len(Entity(Root).fields) :
         \A i \in ProjectionsOf(Entity(Root).fields[f]) :
           /\ DenoteTheSameValue(plan.selectColumns[i].expr,
                getColumnNameAsync(Root, plan.validJoins, mainTableAlias,
                                   Entity(Root).fields[f]))
           /\ DenoteTheSameValue(plan.selectColumns[i].expr,
                OrderByColumn(Root, plan.validJoins, Entity(Root).fields[f]))


\* every hop of a relation path has a relation field, a foreign key field
\* and a target entity
RECURSIVE PathResolves(_, _)
PathResolves(e, path) ==
  IF Len(path) = 0 THEN TRUE
  ELSE /\ FieldByKey(e, path[1]).rel # NoEntity
       /\ \/ getRelationDetails(e, path[1]).fkField # NoField
          \/ FieldByKey(e, ConventionFk(path[1])) # NoField
       /\ PathResolves(FieldByKey(e, path[1]).rel, Tail(path))

\* a token that cannot be resolved: fewer than two segments, a hop that
\* does not resolve, or a target field the last entity does not have
UnresolvableToken(e, parts) ==
  \/ Len(parts) < 2
  \/ ~PathResolves(e, SubSeq(parts, 1, Len(parts) - 1))
  \/ FieldByKeyOrDbName(EntityAtPath(e, SubSeq(parts, 1, Len(parts) - 1)),
                        parts[Len(parts)]) = NoField

\* the token fields of the root entity that cannot be resolved
UnresolvableFields ==
  {i \in 1..Len(Entity(Root).fields) :
     /\ Entity(Root).fields[i].expr # <<>>
     /\ UnresolvableToken(Root, Entity(Root).fields[i].expr)}

\* C21: once findWithJoins has built its SELECT list, every token field of
\* the root entity that cannot be resolved (fewer than two segments, target
\* field missing, a hop without relation, foreign key or target entity) is
\* the NULL literal in each resolution path: as projected by the join
\* statement, as converted for the degraded definitions, and as resolved
\* for WHERE and ORDER BY.
C21_UnresolvableTokenIsNull ==
  (req.op = "find" /\ pc \in {"predicate", "execute", "assemble", "degrade"})
    => \A f \in UnresolvableFields :
         /\ \A i \in ProjectionsOf(Entity(Root).fields[f]) :
              plan.selectColumns[i].expr = SqlNull
         /\ convertJoinToSubquery(Root, Entity(Root).fields[f].expr, K(Root))
              = SqlNull
         /\ getColumnNameAsync(Root, plan.validJoins, mainTableAlias,
                               Entity(Root).fields[f]) = SqlNull
         /\ OrderByColumn(Root, plan.validJoins, Entity(Root).fields[f])
              = SqlNull


-----------------------------------------------------------------------------
(* Relation paths of several hops: R -a-> A -b-> B -parent-> B               *)

\* how the entities of the chain are declared: as such, or with a root
\* relation 'a_b' to B declared before relation 'a'
DeepVariants == {"chain", "underscoreFirst"}

\* the token fields of the root entity: none, two hops, three hops, both
DeepTokens == {"none", "two", "three", "both"}

DeepRFields(variant, tokens) ==
  (IF variant = "underscoreFirst"
   THEN <<PlainField(ConventionFk(<<"a", U, "b">>), K("XID")),
          RelationField(<<"a", U, "b">>, "B", NoKey, NoKey, NoInclude)>>
   ELSE <<>>)
    \o <<PlainField(K("id"), NoKey),
         PlainField(<<"a", "Id">>, K("AID")),
         RelationField(K("a"), "A", NoKey, NoKey, NoInclude)>>
    \o (IF tokens \in {"two", "both"}
        THEN <<VirtualField(K("bName"), <<K("a"), K("b"), K("name")>>)>>
        ELSE <<>>)
    \o (IF tokens \in {"three", "both"}
        THEN <<VirtualField(K("pName"),
                            <<K("a"), K("b"), K("parent"), K("name")>>)>>
        ELSE <<>>)

\* B refers to itself
DeepBFields ==
  BFields \o <<PlainField(<<"parent", "Id">>, K("PID")),
               RelationField(K("parent"), "B", NoKey, NoKey, NoInclude)>>

DeepMetadataOf(variant, tokens) ==
  [e \in EntityNames \cup {NoEntity} |->
     CASE e = "R" -> [key |-> "R", fields |-> DeepRFields(variant, tokens),
                      idKey |-> K("id"), nameKey |-> NoKey]
       [] e = "A" -> [key |-> "A", fields |-> AFields, idKey |-> K("id"),
                      nameKey |-> K("name")]
       [] e = "B" -> [key |-> "B", fields |-> DeepBFields, idKey |-> K("id"),
                      nameKey |-> K("name")]
       [] OTHER -> [key |-> NoEntity, fields |-> <<>>, idKey |-> NoKey,
                    nameKey |-> NoKey]]

DeepRRow(id, aid, xid, variant) ==
  [c \in {K("id"), K("AID")}
         \cup (IF variant = "underscoreFirst" THEN {K("XID")} ELSE {}) |->
     IF c = K("id") THEN id ELSE IF c = K("AID") THEN aid ELSE xid]

DeepBRow(id, name, pid) ==
  [c \in {K("id"), K("NAME"), K("PID")} |->
     IF c = K("id") THEN id ELSE IF c = K("NAME") THEN name ELSE pid]

DeepDatabases(variant) ==
  {[R |-> [i \in 1..NRows |-> DeepRRow(Ids[i], aid[i], xid[i], variant)],
    A |-> <<ARow("1", "NYC", "1"), ARow("2", "LA", bid)>>,
    B |-> <<DeepBRow("1", "X", "2"), DeepBRow("2", "Y", Null),
            DeepBRow("3", "Z", "1")>>] :
     aid \in [1..NRows -> {Null, "1", "2"}],
     xid \in [1..NRows ->
                IF variant = "underscoreFirst" THEN {"3"} ELSE {Null}],
     bid \in {Null, "2"}}

InitDeep ==
  /\ cfg \in [variant : DeepVariants, tokens : DeepTokens]
  /\ meta = DeepMetadataOf(cfg.variant, cfg.tokens)
  /\ db \in DeepDatabases(cfg.variant)
  /\ req = NoRequest
  /\ pc = "idle"
  /\ defs = OriginalDefs(Root)
  /\ plan = EmptyPlan
  /\ where = <<>>
  /\ rows = <<>>
  /\ result = Pending
  /\ trace = NoTrace
  /\ seen = NoSeen
  /\ promise = FALSE
  /\ sqlExpression = TheOriginal
  /\ inv = <<>>

\* one find or one count without a filter, up to the answer of the engine
NextDeep ==
  \/ Find(All, FALSE)
  \/ PlanAndProject
  \/ Predicate
  \/ ExecuteJoin
  \/ Count(All)
  \/ ExecuteCount

SpecDeep == InitDeep /\ [][NextDeep]_vars

\* the relation paths of the multi-hop tokens of the root entity
MultiHopPaths ==
  {RelationPathOf(Entity(Root).fields[i]) :
     i \in {j \in 1..Len(Entity(Root).fields) :
              Len(Entity(Root).fields[j].expr) > 2}}

\* the JOIN clauses of the plan for a relation path: under the alias of the
\* path, on the table the path leads to, joined to the alias of the parent
\* path on the column of the foreign key of the last relation of the path
JoinsOfPath(path) ==
  LET parentPath == SubSeq(path, 1, Len(path) - 1)
      parentEntity == EntityAtPath(Root, parentPath)
      relationKey == path[Len(path)]
  IN {j \in 1..Len(plan.joins) :
        /\ plan.joins[j].alias = AliasOfPath(path)
        /\ plan.joins[j].table = EntityAtPath(Root, path)
        /\ plan.joins[j].parentAlias =
             (IF Len(parentPath) = 0 THEN mainTableAlias
              ELSE AliasOfPath(parentPath))
        /\ plan.joins[j].fkCol =
             getFieldDbName(getRelationDetails(parentEntity,
                                               relationKey).fkField)}

\* C22: once findWithJoins has planned its joins, every prefix of the
\* relation path of every multi-hop token of the root entity has exactly
\* one JoinNode, joined to the alias of its parent path on the foreign key
\* column of the parent, and the parent alias of every JoinNode is the main
\* alias or the alias of a JoinNode of the same plan.
C22_PlanIsPrefixClosed ==
  (req.op = "find" /\ pc \in {"predicate", "execute", "assemble"}) =>
    /\ \A path \in MultiHopPaths : \A n \in 1..Len(path) :
         /\ Cardinality(JoinsOfPath(SubSeq(path, 1, n))) = 1
         /\ Cardinality({j \in 1..Len(plan.validJoins) :
               plan.validJoins[j].joinAlias
                 = AliasOfPath(SubSeq(path, 1, n))}) = 1
    /\ \A j \in 1..Len(plan.joins) :
         \/ plan.joins[j].parentAlias = mainTableAlias
         \/ \E k \in 1..Len(plan.joins) :
              plan.joins[k].alias = plan.joins[j].parentAlias

-----------------------------------------------------------------------------
(* Planning gaps: relations of R -a-> A -b-> B -parent-> B that cannot be   *)
(* joined                                                                   *)

\* what is missing: nothing; at relation 'a' of the root (to-many, no
\* foreign key field, no target metadata, target without id field); or the
\* same at relation 'b' of A, the second hop of the tokens
Gaps ==
  {"none", "toMany", "noFk", "noTarget", "noId",
   "hopToMany", "hopNoFk", "hopNoTarget", "hopNoId"}

GapRFields(gap, tokens) ==
  LET fs == DeepRFields("chain", tokens) IN
  CASE gap = "toMany" -> [fs EXCEPT ![3].isArray = TRUE]
    [] gap = "noFk" -> <<fs[1]>> \o SubSeq(fs, 3, Len(fs))
    [] gap = "noTarget" -> [fs EXCEPT ![3] = UntargetedRelationField(K("a"))]
    [] OTHER -> fs

GapAFields(gap) ==
  CASE gap = "hopToMany" ->
         <<AFields[1], AFields[2],
           [AFields[4] EXCEPT !.isArray = TRUE, !.optFk = NoKey]>>
    [] gap = "hopNoFk" -> <<AFields[1], AFields[2], AFields[4]>>
    [] gap = "hopNoTarget" ->
         [AFields EXCEPT ![4] = UntargetedRelationField(K("b"))]
    [] OTHER -> AFields

GapMetadataOf(gap, tokens) ==
  [e \in EntityNames \cup {NoEntity} |->
     CASE e = "R" -> [key |-> "R", fields |-> GapRFields(gap, tokens),
                      idKey |-> K("id"), nameKey |-> NoKey]
       [] e = "A" -> [key |-> "A", fields |-> GapAFields(gap),
                      idKey |-> IF gap = "noId" THEN NoKey ELSE K("id"),
                      nameKey |-> K("name")]
       [] e = "B" -> [key |-> "B", fields |-> DeepBFields,
                      idKey |-> IF gap = "hopNoId" THEN NoKey ELSE K("id"),
                      nameKey |-> K("name")]
       [] OTHER -> [key |-> NoEntity, fields |-> <<>>, idKey |-> NoKey,
                    nameKey |-> NoKey]]

InitGap ==
  /\ cfg \in [gap : Gaps, tokens : DeepTokens]
  /\ meta = GapMetadataOf(cfg.gap, cfg.tokens)
  /\ db \in DeepDatabases("chain")
  /\ req = NoRequest
  /\ pc = "idle"
  /\ defs = OriginalDefs(Root)
  /\ plan = EmptyPlan
  /\ where = <<>>
  /\ rows = <<>>
  /\ result = Pending
  /\ trace = NoTrace
  /\ seen = NoSeen
  /\ promise = FALSE
  /\ sqlExpression = TheOriginal
  /\ inv = <<>>

\* find() or count(): detectDefaultIncludedRelations(), called outside any
\* try block, raises an error, which leaves the call
PlanningFails(op) ==
  /\ pc = "idle"
  /\ PlanningThrows(Root)
  /\ req' = [NoRequest EXCEPT !.op = op, !.filter = All]
  /\ result' = Thrown("planning")
  /\ pc' = "done"
  /\ UNCHANGED <<cfg, meta, db, defs, plan, where, rows, trace, seen>>
  /\ UNCHANGED concVars

\* one find or one count without a filter, up to the plan of its joins
NextGap ==
  \/ Find(All, FALSE)
  \/ PlanAndProject
  \/ Count(All)
  \/ \E op \in {"find", "count"} : PlanningFails(op)

SpecGap == InitGap /\ [][NextGap]_vars

\* the relation a path ends with is to-many, has no resolvable foreign key
\* field, no target entity, or a target entity without id field
IsGap(path) ==
  LET parentEntity == EntityAtPath(Root, SubSeq(path, 1, Len(path) - 1))
      field == FieldByKey(parentEntity, path[Len(path)])
  IN \/ field.isArray
     \/ getRelationDetails(parentEntity, path[Len(path)]).fkField = NoField
     \/ field.rel = NoEntity
     \/ Entity(field.rel).idKey = NoKey

\* the joins of the call have been planned
Planned ==
  \/ req.op = "find" /\ pc = "predicate"
  \/ req.op = "count" /\ pc = "count"

\* the plan has no JoinNode for a relation that cannot be joined
GapsAreAbsent ==
  Planned =>
    \A j \in 1..Len(plan.validJoins) :
      ~IsGap(SplitU(plan.validJoins[j].fieldKey))

\* C23: whatever is missing in the metadata (a to-many relation, a relation
\* without resolvable foreign key field, without target entity or whose
\* target has no id field, at the root or at the second hop of a token), no
\* find and no count ends with an error raised by planning, and the plan
\* that was made has no JoinNode for such a relation.
C23_PlanningGapsAreNotFatal ==
  /\ ~(result.status = "error" /\ result.error = "planning")
  /\ GapsAreAbsent

-----------------------------------------------------------------------------
(* Planning as the recursion it is: one activation of processRelation per   *)
(* step, over R -a-> A -b-> B -parent-> B, B -owner-> A                     *)

\* the joins a plan may hold before the recursion is cut off
MaxJoins == 6

\* the include lists of the relations: none; a names b and b names parent;
\* the same with parent naming itself; b and owner naming each other
CycleIncludes == {"none", "chain", "self", "mutual"}

\* the tokens: none; one through the self-referential relation, twice; one
\* whose target field has a token whose target field has a token back
CycleTokens == {"none", "deep", "mutual"}

IncludeOf(keys) == Include([i \in 1..Len(keys) |-> Item(keys[i])])

CycleRFields(include, tokens) ==
  <<PlainField(K("id"), NoKey),
    PlainField(<<"a", "Id">>, K("AID")),
    RelationField(K("a"), "A", NoKey, NoKey,
       IF include = "none" THEN NoInclude ELSE IncludeOf(<<K("b")>>))>>
    \o (IF tokens = "deep"
        THEN <<VirtualField(K("pName"),
                 <<K("a"), K("b"), K("parent"), K("parent"), K("name")>>)>>
        ELSE IF tokens = "mutual"
        THEN <<VirtualField(K("x"), <<K("a"), K("v")>>)>>
        ELSE <<>>)

CycleAFields(include, tokens) ==
  <<PlainField(K("id"), NoKey),
    PlainField(K("name"), K("NAME")),
    PlainField(<<"b", "Id">>, K("BID")),
    RelationField(K("b"), "B", NoKey, NoKey,
       CASE include \in {"chain", "self"} -> IncludeOf(<<K("parent")>>)
         [] include = "mutual" -> IncludeOf(<<K("owner")>>)
         [] OTHER -> NoInclude)>>
    \o (IF tokens = "mutual"
        THEN <<VirtualField(K("v"), <<K("b"), K("w")>>)>> ELSE <<>>)

CycleBFields(include, tokens) ==
  <<PlainField(K("id"), NoKey),
    PlainField(K("name"), K("NAME")),
    PlainField(<<"parent", "Id">>, K("PID")),
    RelationField(K("parent"), "B", NoKey, NoKey,
       IF include = "self" THEN IncludeOf(<<K("parent")>>) ELSE NoInclude),
    PlainField(<<"owner", "Id">>, K("OID")),
    RelationField(K("owner"), "A", NoKey, NoKey,
       IF include = "mutual" THEN IncludeOf(<<K("b")>>) ELSE NoInclude)>>
    \o (IF tokens = "mutual"
        THEN <<VirtualField(K("w"), <<K("owner"), K("v")>>)>> ELSE <<>>)

CycleMetadataOf(include, tokens) ==
  [e \in EntityNames \cup {NoEntity} |->
     CASE e = "R" -> [key |-> "R", fields |-> CycleRFields(include, tokens),
                      idKey |-> K("id"), nameKey |-> NoKey]
       [] e = "A" -> [key |-> "A", fields |-> CycleAFields(include, tokens),
                      idKey |-> K("id"), nameKey |-> K("name")]
       [] e = "B" -> [key |-> "B", fields |-> CycleBFields(include, tokens),
                      idKey |-> K("id"), nameKey |-> K("name")]
       [] OTHER -> [key |-> NoEntity, fields |-> <<>>, idKey |-> NoKey,
                    nameKey |-> NoKey]]

\* the filters of the calls: none, or one on the token field
CycleFilters ==
  {All} \cup {Eq(k, "X") : k \in VirtualKeys(Root)}

\* in this specification inv holds the calls of processRelation that are
\* still to run, the next one first
InitCycle ==
  /\ cfg \in [include : CycleIncludes, tokens : CycleTokens]
  /\ meta = CycleMetadataOf(cfg.include, cfg.tokens)
  /\ db \in DeepDatabases("chain")
  /\ req = NoRequest
  /\ pc = "idle"
  /\ defs = OriginalDefs(Root)
  /\ plan = EmptyPlan
  /\ where = <<>>
  /\ rows = <<>>
  /\ result = Pending
  /\ trace = NoTrace
  /\ seen = NoSeen
  /\ promise = FALSE
  /\ sqlExpression = TheOriginal
  /\ inv = <<>>

\* a call processRelation(relation, parentAlias, parentEntity, prefix)
Activation(relation, parentAlias, parentEntity, prefix) ==
  [relation |-> relation, parentAlias |-> parentAlias,
   parentEntity |-> parentEntity, prefix |-> prefix]

ActivationsOf(rels, parentAlias, parentEntity, prefix) ==
  [i \in 1..Len(rels) |->
     Activation(rels[i], parentAlias, parentEntity, prefix)]

\* processRelation without the calls it makes: its LEFT JOIN, its JoinNode
\* and its columns
OwnWork(st, act) ==
  LET IsPlainItem(item) ==
        FieldByKey(act.relation.relatedEntity, item.field).rel = NoEntity
  IN processRelation(st,
       [act.relation EXCEPT !.nested = <<>>,
                            !.include.items = SelectSeq(@, IsPlainItem)],
       act.parentAlias, act.parentEntity, act.prefix)

\* the calls processRelation makes, in their order: one per item of
\* fieldsToInclude that is a relation of the joined entity, then one per
\* nested relation
RECURSIVE IncludeCalls(_, _, _, _)
IncludeCalls(items, alias, relatedEntity, newPrefix) ==
  IF Len(items) = 0 THEN <<>>
  ELSE LET itemField == FieldByKey(relatedEntity, items[1].field)
       IN (IF itemField # NoField /\ itemField.rel # NoEntity
           THEN <<Activation(
                    RelationOf(itemField,
                      getRelationDetails(relatedEntity,
                                         itemField.key).fkField),
                    alias, relatedEntity, newPrefix)>>
           ELSE <<>>)
            \o IncludeCalls(Tail(items), alias, relatedEntity, newPrefix)

CallsOf(st, act) ==
  LET relation == act.relation
      relatedEntity == relation.relatedEntity
      currentJoinAlias == JoinAlias(act.prefix, relation.fieldKey)
      newPrefix == PrefixedKey(act.prefix, relation.fieldKey)
      byOption == FieldByKey(act.parentEntity, relation.optField)
      fkFieldMeta ==
        IF relation.fkField # NoField THEN relation.fkField
        ELSE IF byOption # NoField THEN byOption
        ELSE FieldByKey(act.parentEntity, ConventionFk(relation.fieldKey))
      alreadyExists ==
        \E j \in 1..Len(st.validJoins) :
          st.validJoins[j].joinAlias = currentJoinAlias
  IN IF relatedEntity = NoEntity \/ fkFieldMeta = NoField
          \/ Entity(relatedEntity).idKey = NoKey
     THEN <<>>
     ELSE (IF ~alreadyExists /\ relation.include.has
           THEN IncludeCalls(relation.include.items, currentJoinAlias,
                             relatedEntity, newPrefix)
           ELSE <<>>)
            \o ActivationsOf(relation.nested, currentJoinAlias,
                             relatedEntity, newPrefix)

\* findWithJoins: the main columns, and the loop over relationsToJoin about
\* to start
EnterFindWithJoins ==
  /\ pc = "plan"
  /\ plan' = [EmptyPlan EXCEPT !.selectColumns = MainColumnsFrom(Root, 1)]
  /\ inv' = ActivationsOf(relationsToJoin(Root), mainTableAlias, Root, <<>>)
  /\ pc' = "processRelation"
  /\ UNCHANGED <<cfg, meta, db, req, defs, where, rows, result, trace, seen,
                 promise, sqlExpression>>

\* one call of processRelation up to the calls it makes, which run before
\* the calls that were waiting
ProcessRelationStep ==
  /\ pc = "processRelation"
  /\ inv # <<>>
  /\ Len(plan.validJoins) < MaxJoins
  /\ plan' = OwnWork(plan, inv[1])
  /\ inv' = CallsOf(plan, inv[1]) \o Tail(inv)
  /\ UNCHANGED <<cfg, meta, db, req, pc, defs, where, rows, result, trace,
                 seen, promise, sqlExpression>>

\* findWithJoins after the loop: the deferred sqlExpression columns
ProjectDeferredFields ==
  /\ pc = "processRelation"
  /\ inv = <<>>
  /\ plan' = [plan EXCEPT !.selectColumns =
                @ \o DeferredColumnsFrom(Root, plan.validJoins, 1)]
  /\ pc' = "predicate"
  /\ UNCHANGED <<cfg, meta, db, req, defs, where, rows, result, trace, seen>>
  /\ UNCHANGED concVars

\* one find, from the call to the statement ready to be sent
NextCycle ==
  \/ \E f \in CycleFilters : Find(f, FALSE)
  \/ EnterFindWithJoins
  \/ ProcessRelationStep
  \/ ProjectDeferredFields
  \/ Predicate

SpecCycle == InitCycle /\ [][NextCycle]_vars

\* a call that can take a step takes it
SpecCycleFair == SpecCycle /\ WF_vars(NextCycle)

-----------------------------------------------------------------------------
(* The operands of the predicates: what is bound for the caller's values    *)

\* the root entity with a Date field
BindMetadataOf(c) ==
  [MetadataOf(c) EXCEPT
     !["R"].fields = Append(@, DateField(K("orderDate"), K("ORDERDATE")))]

BindDates == {DateValue("01"), DateValue("06")}

\* one leaf of every kind: on the Date field, on the text of the relation
BindLeaves ==
  {Eq(K("orderDate"), d) : d \in BindDates}
    \cup {In(K("orderDate"), <<d, e>>) : d \in BindDates, e \in BindDates}
    \cup {Eq(K("aName"), v) : v \in TextValues}
    \cup {In(K("aName"), <<v, w>>) : v \in TextValues, w \in TextValues}
    \cup {Contains(K("aName"), v) : v \in TextValues}
    \cup {NotContains(K("aName"), v) : v \in TextValues}
    \cup {StartsWithText(K("aName"), v) : v \in TextValues}
    \cup {EndsWithText(K("aName"), v) : v \in TextValues}

\* a leaf, or a Date comparison and a text match together
BindFilters ==
  BindLeaves
    \cup {And(<<Eq(K("orderDate"), d), l>>) :
            d \in BindDates,
            l \in {m \in BindLeaves : m.k \notin {"eq", "in"}}}

InitBind ==
  /\ cfg \in {c \in Configs : c.aHasId /\ ~c.multiHop}
  /\ meta = BindMetadataOf(cfg)
  /\ db \in {d \in Databases :
               /\ d.A[2] = ARow("2", "LA", Null)
               /\ \A i \in 1..NRows : d.R[i][K("AID")] = "1"}
  /\ req = NoRequest
  /\ pc = "idle"
  /\ defs = OriginalDefs(Root)
  /\ plan = EmptyPlan
  /\ where = <<>>
  /\ rows = <<>>
  /\ result = Pending
  /\ trace = NoTrace
  /\ seen = NoSeen
  /\ promise = FALSE
  /\ sqlExpression = TheOriginal
  /\ inv = <<>>

\* find and count up to the statement handed to the engine
NextBind ==
  \/ \E f \in BindFilters : Find(f, FALSE)
  \/ PlanAndProject
  \/ Predicate
  \/ \E f \in BindFilters : Count(f)

SpecBind == InitBind /\ [][NextBind]_vars

\* what the leaves of a filter are to bind, in their order: the stored form
\* of each value, for a text match between the wildcards of its kind, the
\* blanks of a contains match folded into one wildcard each
RECURSIVE StoredOperandsOf(_)
StoredOperandsOf(f) ==
  LET stored(val) == translateValue(FieldByKey(Root, f.field), val) IN
  CASE f.k = "all" -> <<>>
    [] f.k = "and" ->
         IF Len(f.items) = 0 THEN <<>>
         ELSE StoredOperandsOf(f.items[1])
                \o StoredOperandsOf([f EXCEPT !.items = Tail(f.items)])
    [] f.k = "eq" -> <<stored(f.val)>>
    [] f.k = "in" -> [i \in 1..Len(f.vals) |-> stored(f.vals[i])]
    [] f.k = "contains" ->
         <<<<"%">> \o SpacesToPercent(stored(f.val)) \o <<"%">>>>
    [] f.k = "notContains" -> <<<<"%">> \o stored(f.val) \o <<"%">>>>
    [] f.k = "startsWith" -> <<stored(f.val) \o <<"%">>>>
    [] f.k = "endsWith" -> <<<<"%">> \o stored(f.val)>>

\* C25: the values bound to the statement of a find or a count are, leaf by
\* leaf, the stored form (valueConverter.toDb) of the caller's values, for a
\* text match with the wildcards of its kind and nothing else done to the
\* value.
C25_OperandsAreStoredValues ==
  (pc \in {"execute", "count"}) =>
    BindingsOf(where) = StoredOperandsOf(req.filter)

-----------------------------------------------------------------------------
(* Conjunctions with a case-insensitive contains match                      *)

\* a comparison on a stored field of the root, a contains match on the
\* text of the relation
ComposeComparisons == {Eq(K("id"), Ids[i]) : i \in 1..NRows}

ComposeMatches ==
  {Contains(K("aName"), v) :
     v \in {<<"L", "A">>, <<"n", "y">>, <<"N", " ", "C">>}}

\* a leaf alone, and two leaves in either order
ComposeFilters ==
  ComposeMatches
    \cup {And(<<x, y>>) : x \in ComposeComparisons, y \in ComposeMatches}
    \cup {And(<<y, x>>) : x \in ComposeComparisons, y \in ComposeMatches}

InitCompose ==
  /\ cfg \in {c \in Configs : c.aHasId /\ ~c.multiHop}
  /\ meta = MetadataOf(cfg)
  /\ db \in {d \in Databases : d.A[2][K("NAME")] = "LA"}
  /\ req = NoRequest
  /\ pc = "idle"
  /\ defs = OriginalDefs(Root)
  /\ plan = EmptyPlan
  /\ where = <<>>
  /\ rows = <<>>
  /\ result = Pending
  /\ trace = NoTrace
  /\ seen = NoSeen
  /\ promise = FALSE
  /\ sqlExpression = TheOriginal
  /\ inv = <<>>

\* one find or one count, answered by the join statement
NextCompose ==
  \/ \E f \in ComposeFilters : Find(f, FALSE)
  \/ PlanAndProject
  \/ Predicate
  \/ ExecuteJoin
  \/ \E f \in ComposeFilters : Count(f)
  \/ ExecuteCount

SpecCompose == InitCompose /\ [][NextCompose]_vars

\* a stored root row satisfies a leaf: its own value equals the operand; the
\* name of the row its foreign key refers to holds the words of the operand
\* in their order, whatever the case
LeafHolds(row, leaf) ==
  IF leaf.k = "eq" THEN row[K("id")] = leaf.val
  ELSE \E i \in 1..Len(db["A"]) :
         /\ row[K("AID")] # Null
         /\ db["A"][i][K("id")] = row[K("AID")]
         /\ Like(CharsOf(db["A"][i][K("NAME")]),
                 <<"%">> \o SpacesToPercent(leaf.val) \o <<"%">>)

LeavesOf(f) ==
  IF f.k = "and" THEN {f.items[i] : i \in 1..Len(f.items)} ELSE {f}

\* the stored root rows that satisfy every leaf of the filter
RowsSatisfying(f) ==
  {i \in 1..NRows : \A leaf \in LeavesOf(f) : LeafHolds(db[Root][i], leaf)}

\* C26: a find whose filter is a conjunction of leaves with a contains match
\* gets from its join statement exactly the root rows that satisfy every
\* leaf, once each, and a count their number, wherever the contains match
\* stands among the leaves.
C26_ConjunctionSelectsEveryLeaf ==
  /\ (req.op = "find" /\ pc = "assemble") =>
       /\ Len(rows) = Cardinality(RowsSatisfying(req.filter))
       /\ {rows[i][K("id")] : i \in 1..Len(rows)}
            = {db[Root][i][K("id")] : i \in RowsSatisfying(req.filter)}
  /\ (req.op = "count" /\ pc = "done") =>
       result.count = Cardinality(RowsSatisfying(req.filter))

-----------------------------------------------------------------------------
(* Identifier Dialect Adapter: wrapIdentifier and normalizeSql over texts.  *)
(* A text is the sequence of its characters, a word counting as one.  Here  *)
(* cfg holds the dialect of the connection and which of the two copies of   *)
(* the adapter runs, and trace the texts the expression went through.       *)

DQ == "\""

\* the longest text drawn character by character
MaxLen == 4

\* how often the adapter is applied to its own result
MaxPasses == 2

Alphabet == {"[", "]", DQ, " ", ".", "x"}

RECURSIVE TextsOfLength(_)
TextsOfLength(n) ==
  IF n = 0 THEN {<<>>}
  ELSE {Append(t, ch) : t \in TextsOfLength(n - 1), ch \in Alphabet}

\* fragments of hand-written expressions
HandWritten ==
  {<<"[", "Order", " ", "Details", "]">>,
   <<"[", "main", "]", ".", "[", "main", "]", ".", "[", "x", "]">>,
   <<DQ, "main", DQ, ".", DQ, "main", DQ, ".", DQ, "x", DQ>>,
   <<"[", "x", "]", ".", "[", "Order", " ", "Details", "]">>,
   <<"(", "[", "x", "]", ")">>,
   <<"[", "[", "x", "]", "]">>}

Texts ==
  HandWritten \cup UNION {TextsOfLength(n) : n \in 1..MaxLen}

Includes(text, ch) == \E i \in 1..Len(text) : text[i] = ch

\* id.replace(/"/g, '""')
RECURSIVE DoubleDq(_)
DoubleDq(id) ==
  IF Len(id) = 0 THEN <<>>
  ELSE (IF id[1] = DQ THEN <<DQ, DQ>> ELSE <<id[1]>>) \o DoubleDq(Tail(id))

\* wrapIdentifier(id) of the provider; the copy of the filter bridge does
\* not look for '.['
wrapIdentifier(c, id) ==
  IF Len(id) = 0 THEN id
  ELSE IF id[1] = "[" \/ id[1] = DQ THEN id
  ELSE IF \/ Includes(id, "(") \/ Includes(id, " ")
          \/ (~c.bridge /\ \E i \in 1..(Len(id) - 1) :
                             id[i] = "." /\ id[i + 1] = "[")
  THEN id
  ELSE IF c.dialect = "mssql" THEN <<"[">> \o id \o <<"]">>
  ELSE <<DQ>> \o DoubleDq(id) \o <<DQ>>

\* sql.replace(/\[([^\]]+)\]/g, (_match, id) => this.wrapIdentifier(id))
RECURSIVE RewrapBracketed(_, _)
RewrapBracketed(c, sql) ==
  IF Len(sql) = 0 THEN <<>>
  ELSE LET closing == {i \in 2..Len(sql) : sql[i] = "]"}
       IN IF sql[1] = "[" /\ closing # {} /\ Min(closing) > 2
          THEN wrapIdentifier(c, SubSeq(sql, 2, Min(closing) - 1))
                 \o RewrapBracketed(c,
                      SubSeq(sql, Min(closing) + 1, Len(sql)))
          ELSE <<sql[1]>> \o RewrapBracketed(c, Tail(sql))

\* sql.replace(/pattern/g, replacement) for a pattern without wildcards
RECURSIVE ReplaceAll(_, _, _)
ReplaceAll(sql, pattern, replacement) ==
  IF Len(sql) < Len(pattern) THEN sql
  ELSE IF SubSeq(sql, 1, Len(pattern)) = pattern
  THEN replacement
         \o ReplaceAll(SubSeq(sql, Len(pattern) + 1, Len(sql)), pattern,
                       replacement)
  ELSE <<sql[1]>> \o ReplaceAll(Tail(sql), pattern, replacement)

normalizeSql(c, sql) ==
  ReplaceAll(
    ReplaceAll(RewrapBracketed(c, sql),
               <<DQ, "main", DQ, ".", DQ, "main", DQ, ".">>,
               <<DQ, "main", DQ, ".">>),
    <<"[", "main", "]", ".", "[", "main", "]", ".">>,
    <<"[", "main", "]", ".">>)

InitQuote ==
  /\ cfg \in [dialect : {"mssql", "pg"}, bridge : BOOLEAN]
  /\ trace \in {<<text>> : text \in Texts}
  /\ meta = MetadataOf(CHOOSE c \in Configs : TRUE)
  /\ db = CHOOSE d \in Databases : TRUE
  /\ req = NoRequest
  /\ pc = "idle"
  /\ defs = <<>>
  /\ plan = EmptyPlan
  /\ where = <<>>
  /\ rows = <<>>
  /\ result = Pending
  /\ seen = NoSeen
  /\ promise = FALSE
  /\ sqlExpression = TheOriginal
  /\ inv = <<>>

\* the text is used as an identifier: wrapIdentifier of the latest text
WrapIdentifier ==
  /\ pc \in {"idle", "wrapIdentifier"}
  /\ Len(trace) <= MaxPasses
  /\ trace' = Append(trace, wrapIdentifier(cfg, trace[Len(trace)]))
  /\ pc' = "wrapIdentifier"
  /\ UNCHANGED <<cfg, meta, db, req, defs, plan, where, rows, result, seen>>
  /\ UNCHANGED concVars

\* the text is an expression: normalizeSql of the latest text
NormalizeSql ==
  /\ pc \in {"idle", "normalizeSql"}
  /\ Len(trace) <= MaxPasses
  /\ trace' = Append(trace, normalizeSql(cfg, trace[Len(trace)]))
  /\ pc' = "normalizeSql"
  /\ UNCHANGED <<cfg, meta, db, req, defs, plan, where, rows, result, seen>>
  /\ UNCHANGED concVars

NextQuote == WrapIdentifier \/ NormalizeSql

SpecQuote == InitQuote /\ [][NextQuote]_vars

\* one identifier between brackets or between double quotes
IsQuoted(text) ==
  /\ Len(text) >= 3
  /\ \/ text[1] = "[" /\ text[Len(text)] = "]"
     \/ text[1] = DQ /\ text[Len(text)] = DQ
  /\ \A i \in 2..(Len(text) - 1) : text[i] \notin {"[", "]", DQ, ".", "("}

\* C27: applying wrapIdentifier or normalizeSql to its own result changes
\* nothing, wrapIdentifier leaves a quoted identifier as it is, and
\* normalizeSql turns a bracket-quoted identifier (with or without a space
\* in it) into a quoted identifier.
C27_QuotingIsIdempotentAndKeepsQuotes ==
  /\ \A i \in 2..(Len(trace) - 1) : trace[i + 1] = trace[i]
  /\ (pc = "wrapIdentifier" /\ IsQuoted(trace[1])) => trace[2] = trace[1]
  /\ (pc = "normalizeSql" /\ IsQuoted(trace[1]) /\ trace[1][1] = "[") =>
       IsQuoted(trace[2])

-----------------------------------------------------------------------------
(* A filter the bridge cannot translate                                     *)

\* what the custom filter of the requests stands for
CustomMeaning == Eq(K("id"), Ids[1])

\* a filter that translates, the custom filter, and the two together
CatchFilters ==
  {Eq(K("aName"), "NYC"), Custom("mine"),
   And(<<Eq(K("aName"), "NYC"), Custom("mine")>>),
   Or(<<Eq(K("aName"), "LA"), Custom("mine")>>)}

InitCatch ==
  /\ cfg \in {c \in Configs : c.aHasId /\ ~c.multiHop}
  /\ meta = MetadataOf(cfg)
  /\ db \in {d \in Databases : d.A[2][K("NAME")] = "LA"}
  /\ req = NoRequest
  /\ pc = "idle"
  /\ defs = OriginalDefs(Root)
  /\ plan = EmptyPlan
  /\ where = <<>>
  /\ rows = <<>>
  /\ result = Pending
  /\ trace = NoTrace
  /\ seen = NoSeen
  /\ promise = FALSE
  /\ sqlExpression = TheOriginal
  /\ inv = <<>>

\* one find or one count, answered by the join statement
NextCatch ==
  \/ \E f \in CatchFilters : Find(f, FALSE)
  \/ PlanAndProject
  \/ Predicate
  \/ ExecuteJoin
  \/ \E f \in CatchFilters : Count(f)
  \/ ExecuteCount

SpecCatch == InitCatch /\ [][NextCatch]_vars

\* the filter lets a stored root row through
RECURSIVE Admits(_, _)
Admits(f, row) ==
  CASE f.k = "all" -> TRUE
    [] f.k = "custom" -> Admits(CustomMeaning, row)
    [] f.k = "and" -> \A i \in 1..Len(f.items) : Admits(f.items[i], row)
    [] f.k = "or" -> \E i \in 1..Len(f.items) : Admits(f.items[i], row)
    [] f.k = "eq" ->
         IF f.field = K("id") THEN row[K("id")] = f.val
         ELSE \E i \in 1..Len(db["A"]) :
                /\ row[K("AID")] # Null
                /\ db["A"][i][K("id")] = row[K("AID")]
                /\ db["A"][i][K("NAME")] = f.val

AdmittedIds(f) ==
  {db[Root][i][K("id")] : i \in {j \in 1..NRows : Admits(f, db[Root][j])}}

\* C28: the join statement of a find or a count whose request carries a
\* filter is built with conditions, and it returns, or counts, no root row
\* that the filter does not let through.
C28_FilterIsNeverLeftOut ==
  /\ (pc \in {"execute", "count"} /\ req.filter # All) => Len(where) > 0
  /\ (req.op = "find" /\ pc = "assemble") =>
       \A i \in 1..Len(rows) : rows[i][K("id")] \in AdmittedIds(req.filter)
  /\ (req.op = "count" /\ pc = "done" /\ result.status = "count") =>
       result.count <= Cardinality(AdmittedIds(req.filter))


-----------------------------------------------------------------------------
(* A joined entity whose primary key has more than one column                *)

\* R refers to A by both columns of the key of A
CompositeRFields(include) ==
  <<PlainField(K("id"), NoKey),
    PlainField(<<"a", "Id">>, K("AID")),
    PlainField(<<"a", "Zone">>, K("AZONE")),
    RelationField(K("a"), "A", <<"a", "Id">>, NoKey, include),
    VirtualField(K("aName"), <<K("a"), K("name")>>)>>

CompositeAFields ==
  <<PlainField(K("id"), NoKey),
    PlainField(K("zone"), K("ZONE")),
    PlainField(K("name"), K("NAME"))>>

\* idMetadata.fields of A is [id, zone] when the key is composite;
\* idKey is its first element in both cases
CompositeMetadataOf(c) ==
  [e \in EntityNames \cup {NoEntity} |->
     CASE e = "R" -> [key |-> "R", fields |-> CompositeRFields(c.aInclude),
                      idKey |-> K("id"), nameKey |-> NoKey]
       [] e = "A" -> [key |-> "A", fields |-> CompositeAFields,
                      idKey |-> K("id"), nameKey |-> NoKey]
       [] e = "B" -> [key |-> "B", fields |-> BFields, idKey |-> K("id"),
                      nameKey |-> NoKey]
       [] OTHER -> [key |-> NoEntity, fields |-> <<>>, idKey |-> NoKey,
                    nameKey |-> NoKey]]

CompositeRRow(id, aid, zone) ==
  [c \in {K("id"), K("AID"), K("AZONE")} |->
     IF c = K("id") THEN id ELSE IF c = K("AID") THEN aid ELSE zone]

CompositeARow(id, zone, name) ==
  [c \in {K("id"), K("ZONE"), K("NAME")} |->
     IF c = K("id") THEN id ELSE IF c = K("ZONE") THEN zone ELSE name]

\* the rows of A: with a composite key two rows may share the id column
CompositeATable(composite) ==
  <<CompositeARow("1", "east", "NYC"),
    CompositeARow(IF composite THEN "1" ELSE "2", "west", "LA")>>

\* every root row refers to no row of A or to one row of A, by its key
CompositeDatabases(composite) ==
  {[R |-> [i \in 1..NRows |->
             IF ref[i] = 0 THEN CompositeRRow(Ids[i], Null, Null)
             ELSE CompositeRRow(Ids[i],
                    CompositeATable(composite)[ref[i]][K("id")],
                    CompositeATable(composite)[ref[i]][K("ZONE")])],
    A |-> CompositeATable(composite),
    B |-> <<BRow("1", "X")>>] :
     ref \in [1..NRows -> 0..2]}

CompositeFilters ==
  {All, Eq(K("id"), Ids[1]), Eq(K("aName"), "NYC"), Eq(K("aName"), "LA")}

InitComposite ==
  /\ cfg \in [composite : BOOLEAN,
              aInclude : {NoInclude, Include(<<Item(K("name"))>>)}]
  /\ meta = CompositeMetadataOf(cfg)
  /\ db \in CompositeDatabases(cfg.composite)
  /\ req = NoRequest
  /\ pc = "idle"
  /\ defs = OriginalDefs(Root)
  /\ plan = EmptyPlan
  /\ where = <<>>
  /\ rows = <<>>
  /\ result = Pending
  /\ trace = NoTrace
  /\ seen = NoSeen
  /\ promise = FALSE
  /\ sqlExpression = TheOriginal
  /\ inv = <<>>

\* one find or one count, answered by the join statement
NextComposite ==
  \/ \E f \in CompositeFilters : Find(f, FALSE)
  \/ PlanAndProject
  \/ Predicate
  \/ ExecuteJoin
  \/ Assemble
  \/ \E f \in CompositeFilters : Count(f)
  \/ ExecuteCount

SpecComposite == InitComposite /\ [][NextComposite]_vars

\* the stored root row satisfies the filter; its relation is the row of A
\* with the key the root row holds
Satisfies(f, row) ==
  CASE f.k = "all" -> TRUE
    [] f.k = "eq" ->
         IF f.field = K("id") THEN row[K("id")] = f.val
         ELSE \E i \in 1..Len(db["A"]) :
                /\ row[K("AID")] # Null
                /\ db["A"][i][K("id")] = row[K("AID")]
                /\ db["A"][i][K("ZONE")] = row[K("AZONE")]
                /\ db["A"][i][K("NAME")] = f.val

\* how often the root row of this id is to be returned: once or never
TimesExpected(f, i) == IF Satisfies(f, db[Root][i]) THEN 1 ELSE 0

\* how often the join statement returned the root row of this id
TimesReturned(i) ==
  Cardinality({k \in 1..Len(rows) : rows[k][K("id")] = Ids[i]})

\* the join targets of the stored rows are unique in the column joined on
JoinColumnIsUnique ==
  \A i, j \in 1..Len(db["A"]) :
    db["A"][i][K("id")] = db["A"][j][K("id")] => i = j

\* the property where the key of the joined entity has one column
SingleKeyRowsOnce ==
  JoinColumnIsUnique =>
    /\ (req.op = "find" /\ pc = "assemble") =>
         \A i \in 1..NRows : TimesReturned(i) = TimesExpected(req.filter, i)
    /\ (req.op = "count" /\ pc = "done" /\ result.status = "count") =>
         result.count
           = Cardinality({i \in 1..NRows :
                            Satisfies(req.filter, db[Root][i])})

\* C29: the join-path find returns each root row that satisfies the filter
\* exactly once and no other row, the objects handed to the caller are as
\* many, and count over the join path is the number of root rows that
\* satisfy the filter, also when the joined entity has a composite key.
C29_RootRowsOnceEach ==
  /\ (req.op = "find" /\ pc = "assemble") =>
       \A i \in 1..NRows : TimesReturned(i) = TimesExpected(req.filter, i)
  /\ (req.op = "find" /\ pc = "done" /\ result.status = "rows") =>
       Len(result.rows)
         = Cardinality({i \in 1..NRows : Satisfies(req.filter, db[Root][i])})
  /\ (req.op = "count" /\ pc = "done" /\ result.status = "count") =>
       result.count
         = Cardinality({i \in 1..NRows : Satisfies(req.filter, db[Root][i])})


-----------------------------------------------------------------------------
(* cleanJoinReferences, one field at a time                                  *)

\* what the sqlExpression of a field is: a '@JOIN:' token, a text with a
\* join alias, a text with the name of the own table, a text with neither,
\* a function that throws, a function whose promise rejects
CleanKinds == {"token", "alias", "table", "plain", "throws", "rejects"}

MaxCleanFields == 3

CleanKeys == <<K("x1"), K("x2"), K("x3"), K("x4")>>

Failing(how) == [k |-> "failing", how |-> how]

CleanField(key, kind) ==
  CASE kind = "token" -> VirtualField(key, <<K("a"), K("name")>>)
    [] kind = "alias" ->
         HandWrittenField(key, Col(<<"join", U, "a">>, K("NAME")))
    [] kind = "table" -> HandWrittenField(key, Col(K("R"), K("AID")))
    [] kind = "plain" -> HandWrittenField(key, Col(NoKey, K("AID")))
    [] OTHER -> HandWrittenField(key, Failing(kind))

\* this.entity.fields.toArray()
CleanRFields(kinds) ==
  <<PlainField(K("id"), NoKey),
    PlainField(<<"a", "Id">>, K("AID")),
    RelationField(K("a"), "A", <<"a", "Id">>, NoKey, NoInclude)>>
  \o [i \in 1..Len(kinds) |-> CleanField(CleanKeys[i], kinds[i])]

CleanMetadataOf(kinds) ==
  [e \in EntityNames \cup {NoEntity} |->
     CASE e = "R" -> [key |-> "R", fields |-> CleanRFields(kinds),
                      idKey |-> K("id"), nameKey |-> NoKey]
       [] e = "A" -> [key |-> "A", fields |-> AFields, idKey |-> K("id"),
                      nameKey |-> K("name")]
       [] e = "B" -> [key |-> "B", fields |-> BFields, idKey |-> K("id"),
                      nameKey |-> NoKey]
       [] OTHER -> [key |-> NoEntity, fields |-> <<>>, idKey |-> NoKey,
                    nameKey |-> NoKey]]

\* the fields with a sqlExpression on their options
SqlExpressionKeys(e) ==
  {Entity(e).fields[i].key :
     i \in {j \in 1..Len(Entity(e).fields) :
              HasSqlExpression(Entity(e).fields[j])}}

\* calling fieldOptions.sqlExpression, or awaiting what it returned, raises
\* an error
ExpressionFails(field) == field.sql.k = "failing"

\* the three tests on the text: '@JOIN:', join_<path>., the own table name
NeedsOverride(e, field) ==
  \/ field.expr # <<>>
  \/ /\ field.sql.k = "col"
     /\ \/ StartsWith(field.sql.alias, <<"join", U>>)
        \/ field.sql.alias = K(Entity(e).key)

\* the local state of the running call: the position of the loop over the
\* fields and the keys of the Map originalValues
NoCall == [at |-> 0, originalValues |-> {}]

CleanOperations == {"find", "insert", "update", "delete"}

InitClean ==
  /\ cfg \in [kinds : UNION {[1..n -> CleanKinds] : n \in 1..MaxCleanFields}]
  /\ meta = CleanMetadataOf(cfg.kinds)
  /\ db = [R |-> <<RRow("1", "1"), RRow("2", Null)>>,
           A |-> <<ARow("1", "NYC", "1"), ARow("2", "LA", Null)>>,
           B |-> <<BRow("1", "X")>>]
  /\ req = NoRequest
  /\ pc = "idle"
  /\ defs = [key \in SqlExpressionKeys(Root) |-> Original]
  /\ plan = EmptyPlan
  /\ where = <<>>
  /\ rows = <<>>
  /\ result = Pending
  /\ trace = NoTrace
  /\ seen = NoSeen
  /\ promise = FALSE
  /\ sqlExpression = TheOriginal
  /\ inv = NoCall

\* update, delete and insert start with cleanJoinReferences(); find gets to
\* it when it has nothing to join or after its join attempt has failed
CleanCall(op) ==
  /\ pc = "idle"
  /\ req' = [NoRequest EXCEPT !.op = op]
  /\ pc' = "clean"
  /\ inv' = [at |-> 1, originalValues |-> {}]
  /\ UNCHANGED <<cfg, meta, db, defs, plan, where, rows, result, trace, seen,
                 promise, sqlExpression>>

\* one round of the loop: the expression of the field is obtained and, by
\* its text, the original is saved and the override installed
CleanStep ==
  /\ pc = "clean"
  /\ inv.at <= Len(Entity(Root).fields)
  /\ \E field \in {Entity(Root).fields[inv.at]} :
       /\ ~ExpressionFails(field)
       /\ IF HasSqlExpression(field) /\ NeedsOverride(Root, field)
          THEN /\ defs' = [defs EXCEPT ![field.key] = Degraded]
               /\ inv' = [at |-> inv.at + 1,
                          originalValues |->
                            inv.originalValues \cup {field.key}]
          ELSE /\ defs' = defs
               /\ inv' = [inv EXCEPT !.at = @ + 1]
  /\ UNCHANGED <<cfg, meta, db, req, pc, plan, where, rows, result, trace,
                 seen, promise, sqlExpression>>

\* the expression function throws, or the awaited promise rejects: the
\* error leaves cleanJoinReferences and the operation, which has no try
\* block around the call; originalValues goes with the frame
CleanThrows ==
  /\ pc = "clean"
  /\ inv.at <= Len(Entity(Root).fields)
  /\ ExpressionFails(Entity(Root).fields[inv.at])
  /\ result' = Thrown("sqlExpression")
  /\ inv' = NoCall
  /\ pc' = "done"
  /\ UNCHANGED <<cfg, meta, db, req, defs, plan, where, rows, trace, seen,
                 promise, sqlExpression>>

\* return originalValues; try { return await this.baseEntityProvider.op }
CleanReturns ==
  /\ pc = "clean"
  /\ inv.at > Len(Entity(Root).fields)
  /\ pc' = "delegate"
  /\ trace' = [trace EXCEPT !.degradeRuns = @ + 1, !.visible = defs]
  /\ UNCHANGED <<cfg, meta, db, req, defs, plan, where, rows, result, seen>>
  /\ UNCHANGED concVars

\* the operation of the base provider returns or throws; the finally block
\* puts back what originalValues holds
BaseOperationEnds(ok) ==
  /\ pc = "delegate"
  /\ result' = IF ok THEN Returned(<<>>) ELSE Thrown("base")
  /\ defs' = [key \in DOMAIN defs |->
                IF key \in inv.originalValues THEN Original ELSE defs[key]]
  /\ inv' = NoCall
  /\ pc' = "done"
  /\ UNCHANGED <<cfg, meta, db, req, plan, where, rows, trace, seen,
                 promise, sqlExpression>>

NextClean ==
  \/ \E op \in CleanOperations : CleanCall(op)
  \/ CleanStep
  \/ CleanThrows
  \/ CleanReturns
  \/ \E ok \in BOOLEAN : BaseOperationEnds(ok)

SpecClean == InitClean /\ [][NextClean]_vars

\* some field of the entity has an expression that fails
HasFailingField ==
  \E i \in 1..Len(Entity(Root).fields) :
    ExpressionFails(Entity(Root).fields[i])

DefinitionsAsDeclared == \A key \in DOMAIN defs : defs[key] = Original

\* a failure inside cleanJoinReferences reaches the caller as an error
CleanFailurePropagates ==
  (pc = "done" /\ HasFailingField) => result = Thrown("sqlExpression")

\* a call whose cleanJoinReferences returned leaves the definitions as
\* they were declared, whether the base operation returns or throws
RestoredAfterBaseOperation ==
  (pc = "done" /\ ~HasFailingField) => DefinitionsAsDeclared

\* C30: when cleanJoinReferences fails part-way during find, insert, update
\* or delete, the call ends with that error and every sqlExpression of the
\* entity is the one that was declared.
C30_FailedDegradeLeavesDefinitions ==
  (pc = "done" /\ HasFailingField) =>
    /\ result = Thrown("sqlExpression")
    /\ DefinitionsAsDeclared

====
